---- MODULE Spec2Model ----
(***************************************************************************)
(* Verification model of maurofran/filesystem: the path normalizer         *)
(* (utils.go), the filesystem facade (filesystem.go), its configuration    *)
(* chain (config.go) and the mount manager.                                *)
(*                                                                         *)
(* Strings are sequences of one-character strings, so that splitting,      *)
(* joining and pattern matching are computed as the Go code computes them. *)
(***************************************************************************)
EXTENDS Integers, Sequences, FiniteSets, TLC

VARIABLES raw, once, twice,
          config, overwrite, store, last,
          managers, allocated,
          plugins, bound, callers

vars == <<raw, once, twice, config, overwrite, store, last, managers, allocated,
          plugins, bound, callers>>

normVars == <<raw, once, twice>>
fsVars == <<config, overwrite, store>>
mmVars == <<managers, allocated>>
plVars == <<plugins, bound, callers>>

(***************************************************************************)
(* Bounds                                                                  *)
(***************************************************************************)
\* longest raw path string handed to the normalizer on its own
MaxLen == 4
\* an Adapter call made by one operation may fail; FailAt ranges over the
\* index of the failing call, 0 meaning that no call fails
MaxFail == 5

(***************************************************************************)
(* Characters.  CTL stands for any character of Unicode category C         *)
(* (control, format, ...), LETTER for an ordinary printable character.     *)
(***************************************************************************)
CTL == "<ctl>"
Alphabet == {"a", ".", "/", "\\", "#", "u", CTL}

RECURSIVE SeqsUpTo(_, _)
SeqsUpTo(S, n) ==
  IF n = 0 THEN {<<>>}
  ELSE LET shorter == SeqsUpTo(S, n - 1)
       IN shorter \cup {Append(s, c) : s \in {t \in shorter : Len(t) = n - 1}, c \in S}

\* the element of a one-element set: Only({e(x) : x \in {v}}) is e(v)
Only(S) == CHOOSE x \in S : TRUE

Drop(s, n) == SubSeq(s, n + 1, Len(s))
Take(s, n) == SubSeq(s, 1, n)
HasPrefix(s, p) == Len(s) >= Len(p) /\ Take(s, Len(p)) = p

(***************************************************************************)
(* Errors.  kind is the Go type of the error value; arg is the path,       *)
(* prefix or method the error carries.                                     *)
(***************************************************************************)
Err(k, a) == [kind |-> k, arg |-> a]
Nil == Err("nil", <<>>)
\* the error values of error.go and of fmt.Errorf / errors.New
errorString(a) == Err("errorString", a)
fileNotFoundError(p) == Err("fileNotFoundError", p)
fileExistsError(p) == Err("fileExistsError", p)
invalidPathError(p) == Err("pathError", p)
mountNotFoundError(p) == Err("mountNotFound", p)
mountExistsError(p) == Err("mountExists", p)
\* an error produced by the storage backend behind the Adapter
adapterError(p) == Err("adapterError", p)
\* a run-time panic unwinding the call
Panic(a) == Err("panic", a)

IsPathError(e) == e.kind = "pathError"
\* the IsFileNotFound with one result (error.go line 235), the one the
\* plugins can call: it asserts the interface FileNotFoundError, whose method
\* is Path(), which pathError has and fileNotFoundError has not
IsFileNotFound(e) == e.kind = "pathError"

(***************************************************************************)
(* utils.go: path normalization                                            *)
(***************************************************************************)
emptyPath == <<>>

\* strings.Replace(path, "\\", "/", 1): only the first backslash
ReplaceFirstBackslash(p) ==
  IF \E i \in 1..Len(p) : p[i] = "\\"
  THEN LET i == CHOOSE j \in 1..Len(p) : p[j] = "\\" /\ \A k \in 1..(j - 1) : p[k] # "\\"
       IN [k \in 1..Len(p) |-> IF k = i THEN "/" ELSE p[k]]
  ELSE p

\* strings.Replace(path, "\\", "/", -1): every backslash
ReplaceBackslash(p) == [k \in 1..Len(p) |-> IF p[k] = "\\" THEN "/" ELSE p[k]]

\* number of CTL characters at the start of s
RECURSIVE CtlRun(_)
CtlRun(s) == IF s # <<>> /\ Head(s) = CTL THEN 1 + CtlRun(Tail(s)) ELSE 0

DotSlashHashU == <<".", "/", "#", "u">>

\* length of the match of  #\p{C}+|^\./#u  starting at s, 0 when there is
\* none; atStart tells whether s begins at the start of the text
MatchLen(s, atStart) ==
  IF s # <<>> /\ Head(s) = "#" /\ CtlRun(Tail(s)) > 0 THEN 1 + CtlRun(Tail(s))
  ELSE IF atStart /\ HasPrefix(s, DotSlashHashU) THEN Len(DotSlashHashU)
  ELSE 0

\* whiteSpaceRegexp.MatchString
RECURSIVE MatchFrom(_, _)
MatchFrom(s, atStart) ==
  IF s = <<>> THEN FALSE
  ELSE MatchLen(s, atStart) > 0 \/ MatchFrom(Tail(s), FALSE)

MatchString(p) == MatchFrom(p, TRUE)

\* whiteSpaceRegexp.ReplaceAllString(p, ""): leftmost non-overlapping matches
RECURSIVE ReplaceFrom(_, _)
ReplaceFrom(s, atStart) ==
  IF s = <<>> THEN <<>>
  ELSE IF MatchLen(s, atStart) > 0 THEN ReplaceFrom(Drop(s, MatchLen(s, atStart)), FALSE)
  ELSE <<Head(s)>> \o ReplaceFrom(Tail(s), FALSE)

ReplaceAllString(p) == ReplaceFrom(p, TRUE)

RECURSIVE removeFunkyWhiteSpace(_)
removeFunkyWhiteSpace(p) ==
  IF MatchString(p) THEN removeFunkyWhiteSpace(ReplaceAllString(p)) ELSE p

\* strings.Split(p, "/"): always at least one (possibly empty) part
RECURSIVE SplitAcc(_, _, _)
SplitAcc(s, cur, acc) ==
  IF s = <<>> THEN Append(acc, cur)
  ELSE IF Head(s) = "/" THEN SplitAcc(Tail(s), <<>>, Append(acc, cur))
  ELSE SplitAcc(Tail(s), Append(cur, Head(s)), acc)

Split(p) == SplitAcc(p, <<>>, <<>>)

\* a join that roots the path: every part is preceded by a separator
RECURSIVE JoinRooted(_)
JoinRooted(parts) ==
  IF parts = <<>> THEN <<>>
  ELSE <<"/">> \o parts[1] \o JoinRooted(Tail(parts))

\* strings.Join(parts, "/")
RECURSIVE Join(_)
Join(parts) ==
  IF parts = <<>> THEN <<>>
  ELSE IF Len(parts) = 1 THEN parts[1]
  ELSE parts[1] \o <<"/">> \o Join(Tail(parts))

Dot == <<".">>
DotDot == <<".", ".">>

\* the loop over pathParts; path is the stripped text the error message names
RECURSIVE normalizeParts(_, _, _)
normalizeParts(pathParts, parts, path) ==
  IF pathParts = <<>> THEN [path |-> Join(parts), err |-> Nil]
  ELSE LET part == Head(pathParts) IN
       IF part = <<>> \/ part = Dot THEN normalizeParts(Tail(pathParts), parts, path)
       ELSE IF part = DotDot
       THEN IF Len(parts) = 0
            THEN [path |-> emptyPath, err |-> errorString(path)]
            ELSE normalizeParts(Tail(pathParts), Take(parts, Len(parts) - 1), path)
       ELSE normalizeParts(Tail(pathParts), Append(parts, part), path)

normalizeRelativePath(path) ==
  LET p == removeFunkyWhiteSpace(ReplaceBackslash(path))
  IN normalizeParts(Split(p), <<>>, p)

normalizePath(path) == normalizeRelativePath(path)

(***************************************************************************)
(* config.go: the configuration chain.  A Config is a settings map (which  *)
(* EmptyConfig leaves nil: alloc = FALSE) and a fallback.  Values are      *)
(* written as strings; "true" and "false" are the Go booleans.             *)
(***************************************************************************)
NilConfig == [nil |-> TRUE]
EmptyMap == <<>>
MkConfig(al, m, fb) == [nil |-> FALSE, alloc |-> al, settings |-> m, fallback |-> fb]
EmptyConfig == MkConfig(FALSE, EmptyMap, NilConfig)

PanicValue == "panic"

\* Get answering from the local settings only, never from the fallback
Config_GetLocal(c, key, def) ==
  IF c.nil THEN PanicValue
  ELSE IF key \in DOMAIN c.settings THEN c.settings[key]
  ELSE def

\* Config.Get; a nil receiver panics on c.settings
RECURSIVE Config_Get(_, _, _)
Config_Get(c, key, def) ==
  IF c.nil THEN PanicValue
  ELSE IF key \in DOMAIN c.settings THEN c.settings[key]
  ELSE IF ~c.fallback.nil THEN Config_Get(c.fallback, key, def)
  ELSE def

\* Config.Has; a nil receiver panics on c.settings
RECURSIVE Config_Has(_, _)
Config_Has(c, key) ==
  IF c.nil THEN PanicValue
  ELSE IF key \in DOMAIN c.settings THEN "true"
  ELSE IF ~c.fallback.nil THEN Config_Has(c.fallback, key)
  ELSE "false"

\* Config.Set: assignment to an entry of a nil map panics
Config_Set(c, key, val) ==
  IF ~c.alloc THEN [panic |-> TRUE, cfg |-> c]
  ELSE [panic |-> FALSE, cfg |-> [c EXCEPT !.settings = (key :> val) @@ @]]

Config_SetFallback(c, fb) == [c EXCEPT !.fallback = fb]

\* the loop  for k, v := range config { cfg.Set(k, v) }
RECURSIVE SetAll(_, _, _)
SetAll(c, overrides, keys) ==
  IF keys = {} THEN [panic |-> FALSE, cfg |-> c]
  ELSE LET k == CHOOSE x \in keys : TRUE
           r == Config_Set(c, k, overrides[k])
       IN IF r.panic THEN r ELSE SetAll(r.cfg, overrides, keys \ {k})

\* Configurable.PrepareConfig
PrepareConfig(persistent, overrides) ==
  LET r == SetAll(EmptyConfig, overrides, DOMAIN overrides)
  IN IF r.panic THEN r
     ELSE [panic |-> FALSE, cfg |-> Config_SetFallback(r.cfg, persistent)]

\* the type assertion  x.(bool)
AsBool(x) == [ok |-> x \in {"true", "false"}, v |-> x = "true"]

(***************************************************************************)
(* The storage backend behind the Adapter interface: a map from normalized *)
(* path to content.  Every Adapter call of an operation is appended to     *)
(* ctx.calls; the call whose index is failAt returns a backend error and   *)
(* changes nothing.  Reading, moving or copying an absent file fails.      *)
(***************************************************************************)
Absent == "absent"
Contents == {"v1", "v2"}
NoArg == <<"-">>
FS == {"A", "B"}

\* one Adapter call: the filesystem, the method, its path arguments and
\* whether it returned without error
Call(f, m, p, np, ok) == [fs |-> f, m |-> m, p |-> p, np |-> np, ok |-> ok]
Res(ctx, err, val) == [ctx |-> ctx, err |-> err, val |-> val]
Called(ctx, f, m, p, np, ok) == [ctx EXCEPT !.calls = Append(@, Call(f, m, p, np, ok))]
Fails(ctx, failAt) == Len(ctx.calls) + 1 = failAt
Present(ctx, f, p) == ctx.st[f][p] # Absent
Put_(ctx, f, p, v) == [ctx EXCEPT !.st[f][p] = v]

adapter_Has(ctx, f, p, failAt) ==
  IF Fails(ctx, failAt) THEN Res(Called(ctx, f, "Has", p, NoArg, FALSE), adapterError(p), "false")
  ELSE Res(Called(ctx, f, "Has", p, NoArg, TRUE), Nil,
           IF Present(ctx, f, p) THEN "true" ELSE "false")

\* Read and ReadStream: the content, or the stream carrying it
adapter_Read(ctx, f, m, p, failAt) ==
  IF Fails(ctx, failAt) \/ ~Present(ctx, f, p)
  THEN Res(Called(ctx, f, m, p, NoArg, FALSE), adapterError(p), "")
  ELSE Res(Called(ctx, f, m, p, NoArg, TRUE), Nil, ctx.st[f][p])

\* Write, WriteStream, Update, UpdateStream: store the content
adapter_Store(ctx, f, m, p, content, failAt) ==
  IF Fails(ctx, failAt) THEN Res(Called(ctx, f, m, p, NoArg, FALSE), adapterError(p), "")
  ELSE Res(Put_(Called(ctx, f, m, p, NoArg, TRUE), f, p, content), Nil, "")

adapter_Delete(ctx, f, p, failAt) ==
  IF Fails(ctx, failAt)
  THEN Res(Called(ctx, f, "Delete", p, NoArg, FALSE), adapterError(p), "false")
  ELSE Res(Put_(Called(ctx, f, "Delete", p, NoArg, TRUE), f, p, Absent), Nil, "true")

adapter_Move(ctx, f, p, np, failAt) ==
  IF Fails(ctx, failAt) \/ ~Present(ctx, f, p)
  THEN Res(Called(ctx, f, "Move", p, np, FALSE), adapterError(p), "")
  ELSE Res(Put_(Put_(Called(ctx, f, "Move", p, np, TRUE), f, p, Absent), f, np, ctx.st[f][p]),
           Nil, "")

adapter_Copy(ctx, f, p, np, failAt) ==
  IF Fails(ctx, failAt) \/ ~Present(ctx, f, p)
  THEN Res(Called(ctx, f, "Copy", p, np, FALSE), adapterError(p), "")
  ELSE Res(Put_(Called(ctx, f, "Copy", p, np, TRUE), f, np, ctx.st[f][p]), Nil, "")

adapter_GetMetadata(ctx, f, p, failAt) ==
  IF Fails(ctx, failAt) \/ ~Present(ctx, f, p)
  THEN Res(Called(ctx, f, "GetMetadata", p, NoArg, FALSE), adapterError(p), "")
  ELSE Res(Called(ctx, f, "GetMetadata", p, NoArg, TRUE), Nil, "metadata")

\* ListContents, CreateDir, DeleteDir, SetVisibility: directories and
\* visibility are not part of the stored state
adapter_Other(ctx, f, m, p, failAt) ==
  IF Fails(ctx, failAt) THEN Res(Called(ctx, f, m, p, NoArg, FALSE), adapterError(p), "")
  ELSE Res(Called(ctx, f, m, p, NoArg, TRUE), Nil, "")

(***************************************************************************)
(* filesystem.go: the facade.  Each operator is one method: it takes the   *)
(* context (stores and the Adapter calls made so far), the filesystem f    *)
(* and the method's arguments, and returns the new context, the error and  *)
(* the value.  config[f] is the filesystem's persistent Config and         *)
(* overwrite[f] its Adapter's CanOverwrite().                              *)
(***************************************************************************)
\* Has asking the Adapter about the root too
fs_HasAsksForRoot(ctx, f, raw_, failAt) ==
  Only({ IF n.err # Nil THEN Res(ctx, n.err, "false")
         ELSE adapter_Has(ctx, f, n.path, failAt)
       : n \in {normalizePath(raw_)} })

fs_Has(ctx, f, raw_, failAt) ==
  Only({ IF n.err # Nil THEN Res(ctx, n.err, "false")
         ELSE IF n.path = emptyPath THEN Res(ctx, Nil, "false")
         ELSE adapter_Has(ctx, f, n.path, failAt)
       : n \in {normalizePath(raw_)} })

\* the guard of assertPresent and assertAbsent:
\*   v, ok := fs.Config().Get("disableAsserts", false).(bool); if !ok || v
PerformsCheck(f) ==
  \E b \in {AsBool(Config_Get(config[f], "disableAsserts", "false"))} : ~b.ok \/ b.v

\* fs.Config().Get on the nil Config of New(adapter, nil) panics
assertPresent(ctx, f, path, failAt) ==
  IF config[f].nil THEN Res(ctx, Panic(path), "")
  ELSE IF PerformsCheck(f)
  THEN Only({ IF h.err # Nil THEN Res(h.ctx, h.err, "")
              ELSE IF h.val # "true" THEN Res(h.ctx, fileNotFoundError(path), "")
              ELSE Res(h.ctx, Nil, "")
            : h \in {fs_Has(ctx, f, path, failAt)} })
  ELSE Res(ctx, Nil, "")

assertAbsent(ctx, f, path, failAt) ==
  IF config[f].nil THEN Res(ctx, Panic(path), "")
  ELSE IF PerformsCheck(f)
  THEN Only({ IF h.err # Nil THEN Res(h.ctx, h.err, "")
              ELSE IF h.val = "true" THEN Res(h.ctx, fileExistsError(path), "")
              ELSE Res(h.ctx, Nil, "")
            : h \in {fs_Has(ctx, f, path, failAt)} })
  ELSE Res(ctx, Nil, "")

\* Read and ReadStream (m names the Adapter method)
fs_Read(ctx, f, m, raw_, failAt) ==
  Only({ IF n.err # Nil THEN Res(ctx, n.err, "")
         ELSE adapter_Read(ctx, f, m, n.path, failAt)
       : n \in {normalizePath(raw_)} })

\* GetMetadata going on to the Adapter although normalizePath failed
fs_GetMetadataUnchecked(ctx, f, raw_, failAt) ==
  adapter_GetMetadata(ctx, f, normalizePath(raw_).path, failAt)

\* GetMimeType, GetTimestamp, GetFileSize, GetMetadata, GetVisibility
fs_GetMetadata(ctx, f, raw_, failAt) ==
  Only({ IF n.err # Nil THEN Res(ctx, n.err, "")
         ELSE adapter_GetMetadata(ctx, f, n.path, failAt)
       : n \in {normalizePath(raw_)} })

fs_ListContents(ctx, f, raw_, failAt) ==
  Only({ IF n.err # Nil THEN Res(ctx, n.err, "")
         ELSE adapter_Other(ctx, f, "ListContents", n.path, failAt)
       : n \in {normalizePath(raw_)} })

\* Write and WriteStream (m names the Adapter method); PrepareConfig is an
\* argument of the Adapter call and is evaluated before it
fs_Write(ctx, f, m, raw_, content, opts, failAt) ==
  Only({ IF n.err # Nil THEN Res(ctx, n.err, "")
         ELSE Only({ IF a.err # Nil THEN a
                     ELSE IF PrepareConfig(config[f], opts).panic
                     THEN Res(a.ctx, Panic(n.path), "")
                     ELSE adapter_Store(a.ctx, f, m, n.path, content, failAt)
                   : a \in {assertAbsent(ctx, f, n.path, failAt)} })
       : n \in {normalizePath(raw_)} })

fs_Delete(ctx, f, raw_, failAt) ==
  Only({ IF n.err # Nil THEN Res(ctx, n.err, "false")
         ELSE Only({ IF a.err # Nil THEN Res(a.ctx, a.err, "false")
                     ELSE adapter_Delete(a.ctx, f, n.path, failAt)
                   : a \in {assertPresent(ctx, f, n.path, failAt)} })
       : n \in {normalizePath(raw_)} })

\* the tail of ReadAndDelete: fs.Delete after a successful fs.Read
DeleteAfterRead(r, f, path, failAt) ==
  Only({ IF d.err # Nil THEN Res(d.ctx, d.err, "") ELSE Res(d.ctx, Nil, r.val)
       : d \in {fs_Delete(r.ctx, f, path, failAt)} })

fs_ReadAndDelete(ctx, f, raw_, failAt) ==
  Only({ IF n.err # Nil THEN Res(ctx, n.err, "")
         ELSE Only({ IF a.err # Nil THEN a
                     ELSE Only({ IF r.err # Nil THEN Res(r.ctx, r.err, "")
                                 ELSE DeleteAfterRead(r, f, n.path, failAt)
                               : r \in {fs_Read(a.ctx, f, "Read", n.path, failAt)} })
                   : a \in {assertPresent(ctx, f, n.path, failAt)} })
       : n \in {normalizePath(raw_)} })

fs_Move(ctx, f, raw_, rawNew, failAt) ==
  Only({ IF n.err # Nil THEN Res(ctx, n.err, "")
         ELSE IF nn.err # Nil THEN Res(ctx, nn.err, "")
         ELSE Only({ IF a.err # Nil THEN a
                     ELSE Only({ IF b.err # Nil THEN b
                                 ELSE adapter_Move(b.ctx, f, n.path, nn.path, failAt)
                               : b \in {assertAbsent(a.ctx, f, nn.path, failAt)} })
                   : a \in {assertPresent(ctx, f, n.path, failAt)} })
       : n \in {normalizePath(raw_)}, nn \in {normalizePath(rawNew)} })

\* Copy asserts the absence of path, not of newpath (filesystem.go line 276)
fs_Copy(ctx, f, raw_, rawNew, failAt) ==
  Only({ IF n.err # Nil THEN Res(ctx, n.err, "")
         ELSE IF nn.err # Nil THEN Res(ctx, nn.err, "")
         ELSE Only({ IF a.err # Nil THEN a
                     ELSE Only({ IF b.err # Nil THEN b
                                 ELSE adapter_Copy(b.ctx, f, n.path, nn.path, failAt)
                               : b \in {assertAbsent(a.ctx, f, n.path, failAt)} })
                   : a \in {assertPresent(ctx, f, n.path, failAt)} })
       : n \in {normalizePath(raw_)}, nn \in {normalizePath(rawNew)} })

fs_CreateDir(ctx, f, raw_, opts, failAt) ==
  Only({ IF n.err # Nil THEN Res(ctx, n.err, "")
         ELSE IF PrepareConfig(config[f], opts).panic THEN Res(ctx, Panic(n.path), "")
         ELSE adapter_Other(ctx, f, "CreateDir", n.path, failAt)
       : n \in {normalizePath(raw_)} })

\* DeleteDir without the test  path == emptyPath
fs_DeleteDirOfRoot(ctx, f, raw_, failAt) ==
  Only({ IF n.err # Nil THEN Res(ctx, n.err, "")
         ELSE adapter_Other(ctx, f, "DeleteDir", n.path, failAt)
       : n \in {normalizePath(raw_)} })

fs_DeleteDir(ctx, f, raw_, failAt) ==
  Only({ IF n.err # Nil THEN Res(ctx, n.err, "")
         ELSE IF n.path = emptyPath THEN Res(ctx, errorString(n.path), "")
         ELSE adapter_Other(ctx, f, "DeleteDir", n.path, failAt)
       : n \in {normalizePath(raw_)} })

fs_SetVisibility(ctx, f, raw_, failAt) ==
  Only({ IF n.err # Nil THEN Res(ctx, n.err, "")
         ELSE Only({ IF a.err # Nil THEN a
                     ELSE adapter_Other(a.ctx, f, "SetVisibility", n.path, failAt)
                   : a \in {assertPresent(ctx, f, n.path, failAt)} })
       : n \in {normalizePath(raw_)} })

\* Update and UpdateStream (m names the Adapter method)
fs_Update(ctx, f, m, raw_, content, opts, failAt) ==
  Only({ IF n.err # Nil THEN Res(ctx, n.err, "")
         ELSE Only({ IF a.err # Nil THEN a
                     ELSE IF PrepareConfig(config[f], opts).panic
                     THEN Res(a.ctx, Panic(n.path), "")
                     ELSE adapter_Store(a.ctx, f, m, n.path, content, failAt)
                   : a \in {assertPresent(ctx, f, n.path, failAt)} })
       : n \in {normalizePath(raw_)} })

canOverwrite(f) == overwrite[f]

\* Put and PutStream; upd and wr name the Adapter methods (Update and Write,
\* or UpdateStream and WriteStream)
fs_Put(ctx, f, upd, wr, raw_, content, opts, failAt) ==
  Only({ IF n.err # Nil THEN Res(ctx, n.err, "")
         ELSE IF PrepareConfig(config[f], opts).panic THEN Res(ctx, Panic(n.path), "")
         ELSE Only({ IF h.err # Nil THEN Res(h.ctx, h.err, "")
                     ELSE IF h.val = "true" /\ canOverwrite(f)
                     THEN adapter_Store(h.ctx, f, upd, n.path, content, failAt)
                     ELSE adapter_Store(h.ctx, f, wr, n.path, content, failAt)
                   : h \in {fs_Has(ctx, f, n.path, failAt)} })
       : n \in {normalizePath(raw_)} })

(***************************************************************************)
(* The mount manager.  managers is the mount table, a map from prefix to   *)
(* filesystem; allocated tells whether the map has been made:              *)
(* EmptyMountManager leaves it nil, which reads as an empty map and panics *)
(* on assignment.                                                          *)
(***************************************************************************)
LowerCase ==
  {"a", "b", "c", "d", "e", "f", "g", "h", "i", "j", "k", "l", "m",
   "n", "o", "p", "q", "r", "s", "t", "u", "v", "w", "x", "y", "z"}
Sep == <<":", "/", "/">>

\* number of lower-case letters at the start of s
RECURSIVE LowerRun(_)
LowerRun(s) == IF s # <<>> /\ Head(s) \in LowerCase THEN 1 + LowerRun(Tail(s)) ELSE 0

\* regexp.MatchString("^[a-z]+://", path)
MatchesPrefix(path) ==
  LowerRun(path) > 0 /\ HasPrefix(Drop(path, LowerRun(path)), Sep)

\* strings.Index(path, "://"): the 0-based index of the first occurrence
RECURSIVE IndexOfSep(_)
IndexOfSep(s) == IF HasPrefix(s, Sep) THEN 0 ELSE 1 + IndexOfSep(Tail(s))

\* splitPath cutting at the last "://" of the path
splitPathAtLast(path) ==
  IF ~MatchesPrefix(path)
  THEN [prefix |-> <<>>, subPath |-> <<>>, err |-> invalidPathError(path)]
  ELSE Only({ [prefix |-> Take(path, idx), subPath |-> Drop(path, idx + 3), err |-> Nil]
            : idx \in {CHOOSE i \in 0..(Len(path) - 3) :
                          /\ HasPrefix(Drop(path, i), Sep)
                          /\ \A j \in (i + 1)..(Len(path) - 3) : ~HasPrefix(Drop(path, j), Sep)} })

splitPath(path) ==
  IF ~MatchesPrefix(path)
  THEN [prefix |-> <<>>, subPath |-> <<>>, err |-> invalidPathError(path)]
  ELSE Only({ [prefix |-> Take(path, idx), subPath |-> Drop(path, idx + 3), err |-> Nil]
            : idx \in {IndexOfSep(path)} })

managerFor(path) ==
  Only({ IF sp.err # Nil THEN [mgr |-> "", subPath |-> <<>>, err |-> sp.err]
         ELSE IF sp.prefix \notin DOMAIN managers
         THEN [mgr |-> "", subPath |-> <<>>, err |-> mountNotFoundError(sp.prefix)]
         ELSE [mgr |-> managers[sp.prefix], subPath |-> sp.subPath, err |-> Nil]
       : sp \in {splitPath(path)} })

\* the single-path methods: managerFor, then the same method of the owner
mm_Has(ctx, path, failAt) ==
  Only({ IF m.err # Nil THEN Res(ctx, m.err, "")
         ELSE fs_Has(ctx, m.mgr, m.subPath, failAt)
       : m \in {managerFor(path)} })

mm_Read(ctx, path, failAt) ==
  Only({ IF m.err # Nil THEN Res(ctx, m.err, "")
         ELSE fs_Read(ctx, m.mgr, "Read", m.subPath, failAt)
       : m \in {managerFor(path)} })

mm_ReadStream(ctx, path, failAt) ==
  Only({ IF m.err # Nil THEN Res(ctx, m.err, "")
         ELSE fs_Read(ctx, m.mgr, "ReadStream", m.subPath, failAt)
       : m \in {managerFor(path)} })

mm_Write(ctx, path, content, failAt) ==
  Only({ IF m.err # Nil THEN Res(ctx, m.err, "")
         ELSE fs_Write(ctx, m.mgr, "Write", m.subPath, content, EmptyMap, failAt)
       : m \in {managerFor(path)} })

mm_WriteStream(ctx, path, content, failAt) ==
  Only({ IF m.err # Nil THEN Res(ctx, m.err, "")
         ELSE fs_Write(ctx, m.mgr, "WriteStream", m.subPath, content, EmptyMap, failAt)
       : m \in {managerFor(path)} })

mm_Update(ctx, path, content, failAt) ==
  Only({ IF m.err # Nil THEN Res(ctx, m.err, "")
         ELSE fs_Update(ctx, m.mgr, "Update", m.subPath, content, EmptyMap, failAt)
       : m \in {managerFor(path)} })

mm_UpdateStream(ctx, path, content, failAt) ==
  Only({ IF m.err # Nil THEN Res(ctx, m.err, "")
         ELSE fs_Update(ctx, m.mgr, "UpdateStream", m.subPath, content, EmptyMap, failAt)
       : m \in {managerFor(path)} })

mm_Put(ctx, path, content, failAt) ==
  Only({ IF m.err # Nil THEN Res(ctx, m.err, "")
         ELSE fs_Put(ctx, m.mgr, "Update", "Write", m.subPath, content, EmptyMap, failAt)
       : m \in {managerFor(path)} })

mm_PutStream(ctx, path, content, failAt) ==
  Only({ IF m.err # Nil THEN Res(ctx, m.err, "")
         ELSE fs_Put(ctx, m.mgr, "UpdateStream", "WriteStream", m.subPath, content, EmptyMap,
               failAt)
       : m \in {managerFor(path)} })

mm_Delete(ctx, path, failAt) ==
  Only({ IF m.err # Nil THEN Res(ctx, m.err, "")
         ELSE fs_Delete(ctx, m.mgr, m.subPath, failAt)
       : m \in {managerFor(path)} })

mm_ReadAndDelete(ctx, path, failAt) ==
  Only({ IF m.err # Nil THEN Res(ctx, m.err, "")
         ELSE fs_ReadAndDelete(ctx, m.mgr, m.subPath, failAt)
       : m \in {managerFor(path)} })

mm_GetMimeType(ctx, path, failAt) ==
  Only({ IF m.err # Nil THEN Res(ctx, m.err, "")
         ELSE fs_GetMetadata(ctx, m.mgr, m.subPath, failAt)
       : m \in {managerFor(path)} })

mm_GetTimestamp(ctx, path, failAt) ==
  Only({ IF m.err # Nil THEN Res(ctx, m.err, "")
         ELSE fs_GetMetadata(ctx, m.mgr, m.subPath, failAt)
       : m \in {managerFor(path)} })

mm_GetFileSize(ctx, path, failAt) ==
  Only({ IF m.err # Nil THEN Res(ctx, m.err, "")
         ELSE fs_GetMetadata(ctx, m.mgr, m.subPath, failAt)
       : m \in {managerFor(path)} })

mm_GetMetadata(ctx, path, failAt) ==
  Only({ IF m.err # Nil THEN Res(ctx, m.err, "")
         ELSE fs_GetMetadata(ctx, m.mgr, m.subPath, failAt)
       : m \in {managerFor(path)} })

mm_CreateDir(ctx, path, failAt) ==
  Only({ IF m.err # Nil THEN Res(ctx, m.err, "")
         ELSE fs_CreateDir(ctx, m.mgr, m.subPath, EmptyMap, failAt)
       : m \in {managerFor(path)} })

mm_DeleteDir(ctx, path, failAt) ==
  Only({ IF m.err # Nil THEN Res(ctx, m.err, "")
         ELSE fs_DeleteDir(ctx, m.mgr, m.subPath, failAt)
       : m \in {managerFor(path)} })

mm_GetVisibility(ctx, path, failAt) ==
  Only({ IF m.err # Nil THEN Res(ctx, m.err, "")
         ELSE fs_GetMetadata(ctx, m.mgr, m.subPath, failAt)
       : m \in {managerFor(path)} })

mm_SetVisibility(ctx, path, failAt) ==
  Only({ IF m.err # Nil THEN Res(ctx, m.err, "")
         ELSE fs_SetVisibility(ctx, m.mgr, m.subPath, failAt)
       : m \in {managerFor(path)} })

mm_ListContents(ctx, path, failAt) ==
  Only({ IF m.err # Nil THEN Res(ctx, m.err, "")
         ELSE fs_ListContents(ctx, m.mgr, m.subPath, failAt)
       : m \in {managerFor(path)} })

\* the test  &mgr1 == &mgr2  compares the addresses of two local variables
SameManager(mgr1, mgr2) == FALSE

\* the deferred source.Close()
Closed(r, f, p) == [r EXCEPT !.ctx = Called(r.ctx, f, "Close", p, NoArg, TRUE)]

\* the deferred source.Close() on the nil stream of a failed ReadStream: the
\* call panics
ClosedNil(src, f, path) ==
  Res(Called(src.ctx, f, "Close", <<>>, NoArg, FALSE), Panic(path), "")

\* the streaming of Move deleting the source whatever WriteStream returned
StreamAndDeleteAlways(src, m1, m2, failAt) ==
  Only({ Only({ Closed(Res(d.ctx, IF w.err # Nil THEN w.err ELSE d.err, ""),
                       m1.mgr, m1.subPath)
              : d \in {fs_Delete(w.ctx, m1.mgr, m1.subPath, failAt)} })
       : w \in {fs_Write(src.ctx, m2.mgr, "WriteStream", m2.subPath, src.val, EmptyMap,
                         failAt)} })

\* the streaming of Move returning after WriteStream, without the Delete
StreamAndKeep(src, m1, m2, failAt) ==
  Only({ Closed(Res(w.ctx, w.err, ""), m1.mgr, m1.subPath)
       : w \in {fs_Write(src.ctx, m2.mgr, "WriteStream", m2.subPath, src.val, EmptyMap,
                         failAt)} })

\* the streaming of Move once the source stream src is open: WriteStream to
\* the target, and Delete of the source only if that succeeded
StreamAndDelete(src, m1, m2, failAt) ==
  Only({ IF w.err # Nil THEN Closed(Res(w.ctx, w.err, ""), m1.mgr, m1.subPath)
         ELSE Only({ Closed(Res(d.ctx, d.err, ""), m1.mgr, m1.subPath)
                   : d \in {fs_Delete(w.ctx, m1.mgr, m1.subPath, failAt)} })
       : w \in {fs_Write(src.ctx, m2.mgr, "WriteStream", m2.subPath, src.val, EmptyMap,
                         failAt)} })

\* the streaming of Copy once the source stream src is open
StreamOnly(src, m1, m2, failAt) ==
  Only({ Closed(Res(w.ctx, w.err, ""), m1.mgr, m1.subPath)
       : w \in {fs_Write(src.ctx, m2.mgr, "WriteStream", m2.subPath, src.val, EmptyMap,
                         failAt)} })

\* defer source.Close() on the nil stream of a failed ReadStream panics
mm_Move(ctx, path, newpath, failAt) ==
  Only({ IF m1.err # Nil THEN Res(ctx, m1.err, "")
         ELSE IF m2.err # Nil THEN Res(ctx, m2.err, "")
         ELSE IF SameManager(m1.mgr, m2.mgr)
         THEN fs_Move(ctx, m1.mgr, m1.subPath, m2.subPath, failAt)
         ELSE Only({ IF src.err # Nil THEN ClosedNil(src, m1.mgr, path)
                     ELSE StreamAndDelete(src, m1, m2, failAt)
                   : src \in {fs_Read(ctx, m1.mgr, "ReadStream", m1.subPath, failAt)} })
       : m1 \in {managerFor(path)}, m2 \in {managerFor(newpath)} })

mm_Copy(ctx, path, newpath, failAt) ==
  Only({ IF m1.err # Nil THEN Res(ctx, m1.err, "")
         ELSE IF m2.err # Nil THEN Res(ctx, m2.err, "")
         ELSE IF SameManager(m1.mgr, m2.mgr)
         THEN fs_Copy(ctx, m1.mgr, m1.subPath, m2.subPath, failAt)
         ELSE Only({ IF src.err # Nil THEN ClosedNil(src, m1.mgr, path)
                     ELSE StreamOnly(src, m1, m2, failAt)
                   : src \in {fs_Read(ctx, m1.mgr, "ReadStream", m1.subPath, failAt)} })
       : m1 \in {managerFor(path)}, m2 \in {managerFor(newpath)} })

(***************************************************************************)
(* The plugin registry (plugin.go).  A registry is the map of a Pluggable  *)
(* (nil in the filesystem New returns) from method name to plugin; bound   *)
(* holds, for every plugin, the filesystem its SetFileSystem stored last.  *)
(* What Handle returns is the plugin's business: it is an input.           *)
(***************************************************************************)
PluginIds == {"p1", "p2", "q"}
Method(p) == IF p = "q" THEN "emptyDir" ELSE "forceRename"
Methods == {"forceRename", "emptyDir", "missing"}
ArgLists == {<<>>, <<"a", "b">>}
HandleResults == {[val |-> "done", err |-> Nil], [val |-> "", err |-> Err("pluginError", <<>>)]}

\* concurrent callers of one mount manager or of one plugin; a caller is
\* idle, inside a call (pc names the statement it executes next) or done
Callers == {"c1", "c2"}
IdleCaller ==
  [pc |-> "idle", op |-> "none", prefix |-> <<>>, mgr |-> "", err |-> Nil,
   raced |-> FALSE, stale |-> FALSE]
NoCallers == [c \in Callers |-> IdleCaller]

NoPlugins == [alloc |-> FALSE, tab |-> <<>>]
Unbound == [p \in PluginIds |-> "none"]

pluginNotFoundError(method) == Err("pluginNotFound", method)

\* Pluggable.AddPlugin: assignment to an entry of a nil map panics
Pluggable_AddPlugin(reg, plugin) ==
  IF ~reg.alloc THEN [panic |-> TRUE, reg |-> reg]
  ELSE [panic |-> FALSE, reg |-> [reg EXCEPT !.tab = (Method(plugin) :> plugin) @@ @]]

Pluggable_FindPlugin(reg, method) ==
  IF method \notin DOMAIN reg.tab
  THEN [plugin |-> "", err |-> pluginNotFoundError(method)]
  ELSE [plugin |-> reg.tab[method], err |-> Nil]

\* the calls InvokePlugin makes on a plugin
SetFileSystemCall(plugin, filesystem) ==
  [m |-> "SetFileSystem", plugin |-> plugin, fs |-> filesystem]
\* Handle runs on the filesystem bound to the plugin when it starts
HandleCall(plugin, bnd, args, ret) ==
  [m |-> "Handle", plugin |-> plugin, fs |-> bnd[plugin], args |-> args, ret |-> ret]

\* InvokePlugin calling Handle without SetFileSystem
Pluggable_InvokeUnbound(reg, bnd, filesystem, method, args, ret) ==
  Only({ IF f.err # Nil THEN [err |-> f.err, val |-> "", calls |-> <<>>, bound |-> bnd]
         ELSE [err |-> ret.err, val |-> ret.val, bound |-> bnd,
               calls |-> <<HandleCall(f.plugin, bnd, args, ret)>>]
       : f \in {Pluggable_FindPlugin(reg, method)} })

\* Pluggable.InvokePlugin; ret is what the plugin's Handle returns
Pluggable_InvokePlugin(reg, bnd, filesystem, method, args, ret) ==
  Only({ IF f.err # Nil THEN [err |-> f.err, val |-> "", calls |-> <<>>, bound |-> bnd]
         ELSE Only({ [err |-> ret.err, val |-> ret.val, bound |-> b,
                      calls |-> <<SetFileSystemCall(f.plugin, filesystem),
                                  HandleCall(f.plugin, b, args, ret)>>]
                   : b \in {[bnd EXCEPT ![f.plugin] = filesystem]} })
       : f \in {Pluggable_FindPlugin(reg, method)} })

(***************************************************************************)
(* plugins/forcerename.go: ForceRename.Handle on the filesystem f bound to *)
(* the plugin.                                                             *)
(***************************************************************************)
\* lines 40-44: the Move, made only if deleted is true
MoveIfDeleted(d, deleted, f, path, newPath, failAt) ==
  IF deleted
  THEN Only({ Res(mv.ctx, mv.err, "true") : mv \in {fs_Move(d.ctx, f, path, newPath, failAt)} })
  ELSE Res(d.ctx, Nil, "false")

ForceRename_Handle(ctx, f, args, failAt) ==
  IF Len(args) # 2 THEN Res(ctx, errorString(<<>>), "false")
  ELSE Only({ IF d.err # Nil /\ ~IsFileNotFound(d.err) THEN Res(d.ctx, d.err, "false")
              ELSE MoveIfDeleted(d, d.err # Nil \/ d.val = "true", f, args[1], args[2], failAt)
            : d \in {fs_Delete(ctx, f, args[2], failAt)} })

(***************************************************************************)
(* Inputs of the facade and the values of its state                        *)
(***************************************************************************)
RawPaths ==
  { <<"a">>, <<"b">>, <<"/", "a", "/">>, <<"a", "/", ".", ".", "/", "b">>,
    <<"a", "/", ".", ".", "/", ".", ".">>, <<>>, <<"a", "/", ".", ".">> }

\* the paths the backend can be asked to store: the normalized inputs
StorePaths == {normalizePath(p).path : p \in RawPaths}

Options == {EmptyMap, ("visibility" :> "public")}

\* New(adapter, nil); New(adapter, EmptyConfig()); and Configs whose settings
\* map holds disableAsserts = false, true, or a value that is not a bool
ConfigChoices ==
  { NilConfig, EmptyConfig,
    MkConfig(TRUE, ("disableAsserts" :> "false"), NilConfig),
    MkConfig(TRUE, ("disableAsserts" :> "true"), NilConfig),
    MkConfig(TRUE, ("disableAsserts" :> "yes"), NilConfig) }

EmptyStore == [f \in FS |-> [p \in StorePaths |-> Absent]]
Idle == [op |-> "none"]
NotYet == [path |-> <<>>, err |-> Err("notyet", <<>>)]
Ctx0 == [st |-> store, calls |-> <<>>]

\* a facade created by New over an empty backend
FacadeInit ==
  /\ config \in [FS -> ConfigChoices]
  /\ overwrite \in [FS -> BOOLEAN]
  /\ store = EmptyStore
  /\ last = Idle

(***************************************************************************)
(* Specification of the normalizer on its own: a raw path is drawn, then   *)
(* normalized, then the result is normalized again.                        *)
(***************************************************************************)
RawStrings == SeqsUpTo(Alphabet, MaxLen)

InitNorm ==
  /\ raw \in RawStrings
  /\ once = NotYet
  /\ twice = NotYet
  /\ config = [f \in FS |-> EmptyConfig]
  /\ overwrite = [f \in FS |-> FALSE]
  /\ store = EmptyStore
  /\ last = Idle
  /\ managers = <<>> /\ allocated = FALSE
  /\ plugins = NoPlugins /\ bound = Unbound /\ callers = NoCallers

NormalizeOnce ==
  /\ once = NotYet
  /\ once' = normalizePath(raw)
  /\ UNCHANGED <<raw, twice, fsVars, last, mmVars, plVars>>

NormalizeTwice ==
  /\ once # NotYet /\ once.err = Nil /\ twice = NotYet
  /\ twice' = normalizePath(once.path)
  /\ UNCHANGED <<raw, once, fsVars, last, mmVars, plVars>>

NextNorm == NormalizeOnce \/ NormalizeTwice

SpecNorm == InitNorm /\ [][NextNorm]_vars

(***************************************************************************)
(* Specification of one facade ("A") used by a sequential caller.  An      *)
(* operation runs to completion and leaves its arguments, its result, the  *)
(* Adapter calls it made and the store it started from in last; Return     *)
(* hands the result to the caller, who may then make the next call.        *)
(***************************************************************************)
Done(op, f, p, np, content, opts, r) ==
  /\ last = Idle
  /\ last' = [op |-> op, fs |-> f, path |-> p, newpath |-> np, content |-> content,
              opts |-> opts, err |-> r.err, val |-> r.val, calls |-> r.ctx.calls,
              pre |-> store]
  /\ store' = r.ctx.st
  /\ UNCHANGED <<normVars, config, overwrite, mmVars, plVars>>

Return ==
  /\ last # Idle
  /\ last' = Idle
  /\ UNCHANGED <<normVars, fsVars, mmVars, plVars>>

Failures == 0..MaxFail
F == "A"

Has == \E p \in RawPaths, k \in Failures :
  Done("Has", F, p, NoArg, "", EmptyMap, fs_Has(Ctx0, F, p, k))
Read == \E p \in RawPaths, k \in Failures :
  Done("Read", F, p, NoArg, "", EmptyMap, fs_Read(Ctx0, F, "Read", p, k))
ReadStream == \E p \in RawPaths, k \in Failures :
  Done("ReadStream", F, p, NoArg, "", EmptyMap, fs_Read(Ctx0, F, "ReadStream", p, k))
GetMimeType == \E p \in RawPaths, k \in Failures :
  Done("GetMimeType", F, p, NoArg, "", EmptyMap, fs_GetMetadata(Ctx0, F, p, k))
GetTimestamp == \E p \in RawPaths, k \in Failures :
  Done("GetTimestamp", F, p, NoArg, "", EmptyMap, fs_GetMetadata(Ctx0, F, p, k))
GetFileSize == \E p \in RawPaths, k \in Failures :
  Done("GetFileSize", F, p, NoArg, "", EmptyMap, fs_GetMetadata(Ctx0, F, p, k))
GetMetadata == \E p \in RawPaths, k \in Failures :
  Done("GetMetadata", F, p, NoArg, "", EmptyMap, fs_GetMetadata(Ctx0, F, p, k))
GetVisibility == \E p \in RawPaths, k \in Failures :
  Done("GetVisibility", F, p, NoArg, "", EmptyMap, fs_GetMetadata(Ctx0, F, p, k))
ListContents == \E p \in RawPaths, k \in Failures :
  Done("ListContents", F, p, NoArg, "", EmptyMap, fs_ListContents(Ctx0, F, p, k))
Write == \E p \in RawPaths, c \in Contents, o \in Options, k \in Failures :
  Done("Write", F, p, NoArg, c, o, fs_Write(Ctx0, F, "Write", p, c, o, k))
WriteStream == \E p \in RawPaths, c \in Contents, o \in Options, k \in Failures :
  Done("WriteStream", F, p, NoArg, c, o, fs_Write(Ctx0, F, "WriteStream", p, c, o, k))
Delete == \E p \in RawPaths, k \in Failures :
  Done("Delete", F, p, NoArg, "", EmptyMap, fs_Delete(Ctx0, F, p, k))
ReadAndDelete == \E p \in RawPaths, k \in Failures :
  Done("ReadAndDelete", F, p, NoArg, "", EmptyMap, fs_ReadAndDelete(Ctx0, F, p, k))
Move == \E p \in RawPaths, np \in RawPaths, k \in Failures :
  Done("Move", F, p, np, "", EmptyMap, fs_Move(Ctx0, F, p, np, k))
Copy == \E p \in RawPaths, np \in RawPaths, k \in Failures :
  Done("Copy", F, p, np, "", EmptyMap, fs_Copy(Ctx0, F, p, np, k))
CreateDir == \E p \in RawPaths, o \in Options, k \in Failures :
  Done("CreateDir", F, p, NoArg, "", o, fs_CreateDir(Ctx0, F, p, o, k))
DeleteDir == \E p \in RawPaths, k \in Failures :
  Done("DeleteDir", F, p, NoArg, "", EmptyMap, fs_DeleteDir(Ctx0, F, p, k))
SetVisibility == \E p \in RawPaths, k \in Failures :
  Done("SetVisibility", F, p, NoArg, "", EmptyMap, fs_SetVisibility(Ctx0, F, p, k))
Update == \E p \in RawPaths, c \in Contents, o \in Options, k \in Failures :
  Done("Update", F, p, NoArg, c, o, fs_Update(Ctx0, F, "Update", p, c, o, k))
UpdateStream == \E p \in RawPaths, c \in Contents, o \in Options, k \in Failures :
  Done("UpdateStream", F, p, NoArg, c, o, fs_Update(Ctx0, F, "UpdateStream", p, c, o, k))
Put == \E p \in RawPaths, c \in Contents, o \in Options, k \in Failures :
  Done("Put", F, p, NoArg, c, o, fs_Put(Ctx0, F, "Update", "Write", p, c, o, k))
PutStream == \E p \in RawPaths, c \in Contents, o \in Options, k \in Failures :
  Done("PutStream", F, p, NoArg, c, o,
       fs_Put(Ctx0, F, "UpdateStream", "WriteStream", p, c, o, k))

\* ForceRename.Handle(args...) of a plugin bound to the filesystem
ForceRename == \E p \in RawPaths, np \in RawPaths, k \in Failures :
  \E args \in {<<p>>, <<p, np>>} :
    Done("ForceRename", F, p, IF Len(args) = 2 THEN np ELSE NoArg, "", EmptyMap,
         ForceRename_Handle(Ctx0, F, args, k))

Init ==
  /\ FacadeInit
  /\ config["B"] = EmptyConfig /\ overwrite["B"] = FALSE
  /\ raw = <<>> /\ once = NotYet /\ twice = NotYet
  /\ managers = <<>> /\ allocated = FALSE
  /\ plugins = NoPlugins /\ bound = Unbound /\ callers = NoCallers

Next ==
  \/ Has \/ Read \/ ReadStream \/ GetMimeType \/ GetTimestamp \/ GetFileSize
  \/ GetMetadata \/ GetVisibility \/ ListContents \/ Write \/ WriteStream
  \/ Delete \/ ReadAndDelete \/ Move \/ Copy \/ CreateDir \/ DeleteDir
  \/ SetVisibility \/ Update \/ UpdateStream \/ Put \/ PutStream \/ ForceRename
  \/ Return

Spec == Init /\ [][Next]_vars

(***************************************************************************)
(* Specification of the configuration chain of filesystem A.  Its Config   *)
(* is nil (New(adapter, nil)), the Config of EmptyConfig() (nil settings   *)
(* map) or a Config whose settings map has been made; Set writes into it,  *)
(* Chain puts a new Config in front of it with SetFallback and SetConfig,  *)
(* and Get, Has and PrepareConfig(overrides).Get read it.                  *)
(***************************************************************************)
MaxChain == 3
Keys == {"x", "y"}
Values == {"1", "2"}
Default == "0"
Overrides == UNION {[K -> Values] : K \in SUBSET Keys}

RECURSIVE Depth(_)
Depth(c) == IF c.nil THEN 0 ELSE 1 + Depth(c.fallback)

InitConfig ==
  /\ config \in [FS -> {NilConfig, EmptyConfig, MkConfig(TRUE, EmptyMap, NilConfig)}]
  /\ config["B"] = EmptyConfig
  /\ overwrite = [f \in FS |-> FALSE]
  /\ store = EmptyStore
  /\ last = Idle
  /\ raw = <<>> /\ once = NotYet /\ twice = NotYet
  /\ managers = <<>> /\ allocated = FALSE
  /\ plugins = NoPlugins /\ bound = Unbound /\ callers = NoCallers

CfgDone(op, key, overrides, val, cfg) ==
  /\ last = Idle
  /\ last' = [op |-> op, fs |-> F, key |-> key, def |-> Default, overrides |-> overrides,
              val |-> val, pre |-> config[F]]
  /\ config' = [config EXCEPT ![F] = cfg]
  /\ UNCHANGED <<normVars, overwrite, store, mmVars, plVars>>

ConfigGet == \E key \in Keys :
  CfgDone("Get", key, EmptyMap, Config_Get(config[F], key, Default), config[F])

ConfigHas == \E key \in Keys :
  CfgDone("Has", key, EmptyMap, Config_Has(config[F], key), config[F])

ConfigSet == \E key \in Keys, val \in Values :
  /\ ~config[F].nil
  /\ \E r \in {Config_Set(config[F], key, val)} :
       CfgDone("Set", key, (key :> val), IF r.panic THEN PanicValue ELSE "", r.cfg)

\* c := &Config{settings: ...} or EmptyConfig(); c.SetFallback(fs.Config());
\* fs.SetConfig(c)
ConfigChain == \E al \in BOOLEAN :
  /\ Depth(config[F]) < MaxChain
  /\ CfgDone("SetFallback", "", EmptyMap, "",
             Config_SetFallback(MkConfig(al, EmptyMap, NilConfig), config[F]))

\* fs.PrepareConfig(overrides).Get(key, def)
PrepareAndGet == \E overrides \in Overrides, key \in Keys :
  \E r \in {PrepareConfig(config[F], overrides)} :
    CfgDone("PrepareConfig", key, overrides,
            IF r.panic THEN PanicValue ELSE Config_Get(r.cfg, key, Default), config[F])

NextConfig == ConfigGet \/ ConfigHas \/ ConfigSet \/ ConfigChain \/ PrepareAndGet \/ Return

SpecConfig == InitConfig /\ [][NextConfig]_vars

(***************************************************************************)
(* Specification of a mount manager over the filesystems A and B, used by  *)
(* a sequential caller.  The manager is the one EmptyMountManager returns  *)
(* (its map is nil) or a mountManager whose map has been made.  A is a     *)
(* filesystem created with EmptyConfig(), B one whose Config sets          *)
(* disableAsserts to true.                                                 *)
(***************************************************************************)
Local == <<"l", "o", "c", "a", "l">>
Mem == <<"m", "e", "m">>
Bogus == <<"b", "o", "g", "u", "s">>
MountPrefixes == {Local, Mem}

\* well-formed paths on both prefixes (one sub-path escaping the root, one
\* that normalization changes), one on an unmounted prefix with a second
\* "://", and two malformed ones (no "://"; a prefix that is not [a-z]+)
MountPaths ==
  { Local \o Sep \o <<"a">>, Local \o Sep \o <<".", ".">>,
    Mem \o Sep \o <<"/", "a">>, Mem \o Sep \o <<"b">>,
    Bogus \o Sep \o <<"a">> \o Sep \o <<"b">>, <<"a">>, <<"A">> \o Sep \o <<"a">> }

TrueConfig == MkConfig(TRUE, ("disableAsserts" :> "true"), NilConfig)

InitMount ==
  /\ config = [A |-> EmptyConfig, B |-> TrueConfig]
  /\ overwrite = [f \in FS |-> TRUE]
  /\ store = EmptyStore
  /\ last = Idle
  /\ managers = <<>>
  /\ allocated \in BOOLEAN
  /\ raw = <<>> /\ once = NotYet /\ twice = NotYet
  /\ plugins = NoPlugins /\ bound = Unbound /\ callers = NoCallers

MmDone(op, p, np, content, mgr, r, table) ==
  /\ last = Idle
  /\ last' = [op |-> op, fs |-> "mm", path |-> p, newpath |-> np, content |-> content,
              mgr |-> mgr, err |-> r.err, val |-> r.val, calls |-> r.ctx.calls,
              pre |-> store, table |-> managers]
  /\ store' = r.ctx.st
  /\ managers' = table
  /\ UNCHANGED <<normVars, config, overwrite, allocated, plVars>>

\* Mount assigning to the map without looking the prefix up
mm_MountOverwrite(prefix, mgr) ==
  IF ~allocated THEN [err |-> Panic(prefix), table |-> managers]
  ELSE [err |-> Nil, table |-> (prefix :> mgr) @@ managers]

mm_Mount(prefix, mgr) ==
  IF prefix \in DOMAIN managers THEN [err |-> mountExistsError(prefix), table |-> managers]
  ELSE IF ~allocated THEN [err |-> Panic(prefix), table |-> managers]
  ELSE [err |-> Nil, table |-> (prefix :> mgr) @@ managers]

mm_Unmount(prefix) ==
  IF prefix \notin DOMAIN managers THEN [err |-> mountNotFoundError(prefix), table |-> managers]
  ELSE [err |-> Nil, table |-> [q \in DOMAIN managers \ {prefix} |-> managers[q]]]

Mount == \E prefix \in MountPrefixes, mgr \in FS : \E r \in {mm_Mount(prefix, mgr)} :
  MmDone("Mount", prefix, NoArg, "", mgr, Res(Ctx0, r.err, ""), r.table)

Unmount == \E prefix \in MountPrefixes : \E r \in {mm_Unmount(prefix)} :
  MmDone("Unmount", prefix, NoArg, "", "", Res(Ctx0, r.err, ""), r.table)

MmMove == \E path \in MountPaths, newpath \in MountPaths, k \in Failures :
  MmDone("Move", path, newpath, "", "", mm_Move(Ctx0, path, newpath, k), managers)

MmCopy == \E path \in MountPaths, newpath \in MountPaths, k \in Failures :
  MmDone("Copy", path, newpath, "", "", mm_Copy(Ctx0, path, newpath, k), managers)

MmHas == \E path \in MountPaths, k \in Failures :
  MmDone("Has", path, NoArg, "", "", mm_Has(Ctx0, path, k), managers)

MmRead == \E path \in MountPaths, k \in Failures :
  MmDone("Read", path, NoArg, "", "", mm_Read(Ctx0, path, k), managers)

MmReadStream == \E path \in MountPaths, k \in Failures :
  MmDone("ReadStream", path, NoArg, "", "", mm_ReadStream(Ctx0, path, k), managers)

MmWrite == \E path \in MountPaths, v \in Contents, k \in Failures :
  MmDone("Write", path, NoArg, v, "", mm_Write(Ctx0, path, v, k), managers)

MmWriteStream == \E path \in MountPaths, v \in Contents, k \in Failures :
  MmDone("WriteStream", path, NoArg, v, "", mm_WriteStream(Ctx0, path, v, k), managers)

MmUpdate == \E path \in MountPaths, v \in Contents, k \in Failures :
  MmDone("Update", path, NoArg, v, "", mm_Update(Ctx0, path, v, k), managers)

MmUpdateStream == \E path \in MountPaths, v \in Contents, k \in Failures :
  MmDone("UpdateStream", path, NoArg, v, "", mm_UpdateStream(Ctx0, path, v, k), managers)

MmPut == \E path \in MountPaths, v \in Contents, k \in Failures :
  MmDone("Put", path, NoArg, v, "", mm_Put(Ctx0, path, v, k), managers)

MmPutStream == \E path \in MountPaths, v \in Contents, k \in Failures :
  MmDone("PutStream", path, NoArg, v, "", mm_PutStream(Ctx0, path, v, k), managers)

MmDelete == \E path \in MountPaths, k \in Failures :
  MmDone("Delete", path, NoArg, "", "", mm_Delete(Ctx0, path, k), managers)

MmReadAndDelete == \E path \in MountPaths, k \in Failures :
  MmDone("ReadAndDelete", path, NoArg, "", "", mm_ReadAndDelete(Ctx0, path, k), managers)

MmGetMimeType == \E path \in MountPaths, k \in Failures :
  MmDone("GetMimeType", path, NoArg, "", "", mm_GetMimeType(Ctx0, path, k), managers)

MmGetTimestamp == \E path \in MountPaths, k \in Failures :
  MmDone("GetTimestamp", path, NoArg, "", "", mm_GetTimestamp(Ctx0, path, k), managers)

MmGetFileSize == \E path \in MountPaths, k \in Failures :
  MmDone("GetFileSize", path, NoArg, "", "", mm_GetFileSize(Ctx0, path, k), managers)

MmGetMetadata == \E path \in MountPaths, k \in Failures :
  MmDone("GetMetadata", path, NoArg, "", "", mm_GetMetadata(Ctx0, path, k), managers)

MmCreateDir == \E path \in MountPaths, k \in Failures :
  MmDone("CreateDir", path, NoArg, "", "", mm_CreateDir(Ctx0, path, k), managers)

MmDeleteDir == \E path \in MountPaths, k \in Failures :
  MmDone("DeleteDir", path, NoArg, "", "", mm_DeleteDir(Ctx0, path, k), managers)

MmGetVisibility == \E path \in MountPaths, k \in Failures :
  MmDone("GetVisibility", path, NoArg, "", "", mm_GetVisibility(Ctx0, path, k), managers)

MmSetVisibility == \E path \in MountPaths, k \in Failures :
  MmDone("SetVisibility", path, NoArg, "", "", mm_SetVisibility(Ctx0, path, k), managers)

MmListContents == \E path \in MountPaths, k \in Failures :
  MmDone("ListContents", path, NoArg, "", "", mm_ListContents(Ctx0, path, k), managers)

NextMount ==
  \/ Mount \/ Unmount \/ MmMove \/ MmCopy
  \/ MmHas \/ MmRead \/ MmReadStream \/ MmWrite \/ MmWriteStream
  \/ MmUpdate \/ MmUpdateStream \/ MmPut \/ MmPutStream \/ MmDelete
  \/ MmReadAndDelete \/ MmGetMimeType \/ MmGetTimestamp \/ MmGetFileSize \/ MmGetMetadata
  \/ MmCreateDir \/ MmDeleteDir \/ MmGetVisibility \/ MmSetVisibility \/ MmListContents
  \/ Return

SpecMount == InitMount /\ [][NextMount]_vars

(***************************************************************************)
(* Specification of one mount manager called by two goroutines.  The code  *)
(* takes no lock: Mount and Unmount are a map read followed by a map       *)
(* write, managerFor is a map read, and the steps of the callers           *)
(* interleave.  A map write takes two steps (BeginWrite, EndWrite); a map   *)
(* access made while another goroutine is writing is a data race, after    *)
(* which the Go runtime may stop the program ("concurrent map writes",     *)
(* "concurrent map read and map write") or let the access go through.      *)
(***************************************************************************)
Fatal == Err("fatal", <<>>)
Crashed == \E c \in Callers : callers[c].err = Fatal
Racing(c) == \E d \in Callers \ {c} : callers[d].pc = "writing"
\* whether the runtime stops the program at a map access of caller c
RaceOutcomes(c) == IF Racing(c) THEN BOOLEAN ELSE {FALSE}
Finished(c, op, prefix, mgr, err) ==
  [pc |-> "done", op |-> op, prefix |-> prefix, mgr |-> mgr, err |-> err,
   raced |-> Racing(c), stale |-> FALSE]

InitMountConc ==
  /\ managers = <<>> /\ allocated \in BOOLEAN
  /\ callers = NoCallers
  /\ config = [A |-> EmptyConfig, B |-> TrueConfig]
  /\ overwrite = [f \in FS |-> TRUE]
  /\ store = EmptyStore
  /\ last = Idle
  /\ raw = <<>> /\ once = NotYet /\ twice = NotYet
  /\ plugins = NoPlugins /\ bound = Unbound

Step(c, next, table) ==
  /\ ~Crashed
  /\ callers' = [callers EXCEPT ![c] = next]
  /\ managers' = table
  /\ UNCHANGED <<normVars, fsVars, last, allocated, plugins, bound>>

\* Mount line 43 and Unmount line 51: the lookup of the prefix
TableLookup(c) == \E op \in {"Mount", "Unmount"}, prefix \in MountPrefixes, mgr \in FS :
  \E fatal \in RaceOutcomes(c) :
    /\ callers[c].pc = "idle"
    /\ Step(c, IF fatal THEN Finished(c, op, prefix, mgr, Fatal)
               ELSE IF op = "Mount" /\ prefix \in DOMAIN managers
               THEN Finished(c, op, prefix, mgr, mountExistsError(prefix))
               ELSE IF op = "Unmount" /\ prefix \notin DOMAIN managers
               THEN Finished(c, op, prefix, mgr, mountNotFoundError(prefix))
               ELSE [Finished(c, op, prefix, mgr, Nil) EXCEPT !.pc = "assign"],
            managers)

\* Mount line 46 and Unmount line 54 start to write the map
BeginWrite(c) == \E fatal \in RaceOutcomes(c) :
  /\ callers[c].pc = "assign"
  /\ Step(c, IF callers[c].op = "Mount" /\ ~allocated
             THEN [callers[c] EXCEPT !.pc = "done", !.err = Panic(callers[c].prefix)]
             ELSE IF fatal THEN [callers[c] EXCEPT !.pc = "done", !.err = Fatal]
             ELSE [callers[c] EXCEPT
                     !.pc = "writing",
                     !.raced = @ \/ Racing(c),
                     !.stale = (callers[c].op = "Mount") = (callers[c].prefix \in DOMAIN managers)],
          managers)

\* the write is done and the call returns nil
EndWrite(c) ==
  /\ callers[c].pc = "writing"
  /\ Step(c, [callers[c] EXCEPT !.pc = "done"],
          IF callers[c].op = "Mount" THEN (callers[c].prefix :> callers[c].mgr) @@ managers
          ELSE [q \in DOMAIN managers \ {callers[c].prefix} |-> managers[q]])

\* managerFor line 63, on behalf of any path operation
ManagerLookup(c) == \E prefix \in MountPrefixes, fatal \in RaceOutcomes(c) :
  /\ callers[c].pc = "idle"
  /\ Step(c, Finished(c, "managerFor", prefix, "",
                      IF fatal THEN Fatal
                      ELSE IF prefix \notin DOMAIN managers THEN mountNotFoundError(prefix)
                      ELSE Nil),
          managers)

CallerReturn(c) ==
  /\ callers[c].pc = "done"
  /\ Step(c, IdleCaller, managers)

NextMountConc == \E c \in Callers :
  TableLookup(c) \/ BeginWrite(c) \/ EndWrite(c) \/ ManagerLookup(c) \/ CallerReturn(c)

SpecMountConc == InitMountConc /\ [][NextMountConc]_vars

(***************************************************************************)
(* Specification of the plugin registry of filesystem A, used by a         *)
(* sequential caller: the registry of the filesystem New returns (nil map) *)
(* or a Pluggable whose map has been made.                                 *)
(***************************************************************************)
InitPlugin ==
  /\ plugins \in {NoPlugins, [alloc |-> TRUE, tab |-> <<>>]}
  /\ bound = Unbound /\ callers = NoCallers
  /\ config = [f \in FS |-> EmptyConfig]
  /\ overwrite = [f \in FS |-> FALSE]
  /\ store = EmptyStore
  /\ last = Idle
  /\ raw = <<>> /\ once = NotYet /\ twice = NotYet
  /\ managers = <<>> /\ allocated = FALSE

PlDone(op, filesystem, method, args, r, reg) ==
  /\ last = Idle
  /\ last' = [op |-> op, fs |-> F, target |-> filesystem, method |-> method, args |-> args,
              err |-> r.err, val |-> r.val, calls |-> r.calls,
              pre |-> plugins, prebound |-> bound]
  /\ plugins' = reg
  /\ bound' = r.bound
  /\ UNCHANGED <<normVars, fsVars, mmVars, callers>>

AddPlugin == \E plugin \in PluginIds : \E r \in {Pluggable_AddPlugin(plugins, plugin)} :
  PlDone("AddPlugin", "", Method(plugin), <<plugin>>,
         [err |-> IF r.panic THEN Panic(<<>>) ELSE Nil, val |-> "", calls |-> <<>>,
          bound |-> bound], r.reg)

FindPlugin == \E method \in Methods : \E r \in {Pluggable_FindPlugin(plugins, method)} :
  PlDone("FindPlugin", "", method, <<>>,
         [err |-> r.err, val |-> r.plugin, calls |-> <<>>, bound |-> bound], plugins)

InvokePlugin == \E filesystem \in FS, method \in Methods, args \in ArgLists, ret \in HandleResults :
  PlDone("InvokePlugin", filesystem, method, args,
         Pluggable_InvokePlugin(plugins, bound, filesystem, method, args, ret), plugins)

NextPlugin == AddPlugin \/ FindPlugin \/ InvokePlugin \/ Return

SpecPlugin == InitPlugin /\ [][NextPlugin]_vars

(***************************************************************************)
(* Specification of one plugin registry whose InvokePlugin is called by    *)
(* two goroutines.  InvokePlugin is three statements, FindPlugin,          *)
(* SetFileSystem and Handle, run without a lock on a plugin instance both  *)
(* callers share; the read of the instance's fs field by Handle races     *)
(* with the write of a SetFileSystem another caller has yet to make, and   *)
(* may then see a torn interface value.                                    *)
(***************************************************************************)
Torn == "torn"
Registry(ps) == [alloc |-> TRUE, tab |-> [m \in {Method(p) : p \in ps} |->
                                           CHOOSE p \in ps : Method(p) = m]]

InitPluginConc ==
  /\ plugins \in {Registry({"p1", "q"}), Registry({"p2"})}
  /\ bound = Unbound /\ callers = NoCallers
  /\ config = [f \in FS |-> EmptyConfig]
  /\ overwrite = [f \in FS |-> FALSE]
  /\ store = EmptyStore
  /\ last = Idle
  /\ raw = <<>> /\ once = NotYet /\ twice = NotYet
  /\ managers = <<>> /\ allocated = FALSE

PlStep(c, next, bnd) ==
  /\ callers' = [callers EXCEPT ![c] = next]
  /\ bound' = bnd
  /\ UNCHANGED <<normVars, fsVars, last, mmVars, plugins>>

\* InvokePlugin line 38-42: the lookup of the method
InvokeFind(c) == \E filesystem \in FS, method \in Methods :
  \E f \in {Pluggable_FindPlugin(plugins, method)} :
    /\ callers[c].pc = "idle"
    /\ PlStep(c, [pc |-> IF f.err # Nil THEN "done" ELSE "bind", op |-> "InvokePlugin",
                  fs |-> filesystem, plugin |-> f.plugin, err |-> f.err, ranOn |-> "none"],
              bound)

\* InvokePlugin line 43: plugin.SetFileSystem(filesystem)
InvokeBind(c) ==
  /\ callers[c].pc = "bind"
  /\ PlStep(c, [callers[c] EXCEPT !.pc = "handle"],
            [bound EXCEPT ![callers[c].plugin] =
               SetFileSystemCall(callers[c].plugin, callers[c].fs).fs])

\* the values Handle of caller c may read from the fs field of its plugin
HandleReads(c) ==
  {bound[callers[c].plugin]} \cup
  { Torn : d \in { e \in Callers \ {c} : /\ callers[e].pc = "bind"
                                         /\ callers[e].plugin = callers[c].plugin
                                         /\ callers[e].fs # bound[callers[c].plugin] } }

\* InvokePlugin line 44: plugin.Handle(args...)
InvokeHandle(c) ==
  /\ callers[c].pc = "handle"
  /\ \E args \in ArgLists, ret \in HandleResults, seen \in HandleReads(c) :
     PlStep(c, [callers[c] EXCEPT
                  !.pc = "done", !.err = ret.err,
                  !.ranOn = HandleCall(callers[c].plugin,
                                       [bound EXCEPT ![callers[c].plugin] = seen],
                                       args, ret).fs],
            bound)

InvokeReturn(c) ==
  /\ callers[c].pc = "done"
  /\ PlStep(c, IdleCaller, bound)

NextPluginConc == \E c \in Callers :
  InvokeFind(c) \/ InvokeBind(c) \/ InvokeHandle(c) \/ InvokeReturn(c)

SpecPluginConc == InitPluginConc /\ [][NextPluginConc]_vars

(***************************************************************************)
(* Claims about the normalizer (checked under SpecNorm)                    *)
(***************************************************************************)
\* the segments the loop of normalizeRelativePath scans
Segments(p) == Split(removeFunkyWhiteSpace(ReplaceBackslash(p)))

\* scanning left to right, a ".." is met while no retained segment is left
RECURSIVE EscapesFrom(_, _)
EscapesFrom(segs, depth) ==
  IF segs = <<>> THEN FALSE
  ELSE IF Head(segs) = DotDot
       THEN depth = 0 \/ EscapesFrom(Tail(segs), depth - 1)
  ELSE IF Head(segs) = <<>> \/ Head(segs) = Dot THEN EscapesFrom(Tail(segs), depth)
  ELSE EscapesFrom(Tail(segs), depth + 1)

Escapes(p) == EscapesFrom(Segments(p), 0)

\* C8: normalize fails exactly when a ".." segment has nothing to pop, the
\* failure is an InvalidPath error (a PathError, as IsPathError tests), and
\* "a/../b" normalizes to "b".
C8_RootEscapeIsInvalidPath ==
  once # NotYet =>
    /\ (once.err # Nil) <=> Escapes(raw)
    /\ once.err # Nil => IsPathError(once.err)
    /\ raw = <<"a", "/", ".", ".", "/", "b">> => once = [path |-> <<"b">>, err |-> Nil]

\* the part of C8 that the code does satisfy: failure exactly on root escape
C8_FailsExactlyOnEscape ==
  once # NotYet => ((once.err # Nil) <=> Escapes(raw))

\* C9: normalization is idempotent: when normalize(p) succeeds,
\* normalize(normalize(p)) succeeds and gives the same path.
C9_Idempotent ==
  twice # NotYet => twice.err = Nil /\ twice.path = once.path

\* a raw path that normalization changed by popping a segment was
\* normalized twice
C9_Witness ==
  /\ twice # NotYet
  /\ once.path # raw
  /\ \E i \in 1..Len(Segments(raw)) : Segments(raw)[i] = DotDot

\* the segments of segs that are retained, found from the right: a ".."
\* cancels the nearest named segment on its left that is not yet cancelled
RECURSIVE KeptFrom(_, _)
KeptFrom(segs, pending) ==
  IF segs = <<>> THEN <<>>
  ELSE IF segs[Len(segs)] \in {<<>>, Dot} THEN KeptFrom(Take(segs, Len(segs) - 1), pending)
  ELSE IF segs[Len(segs)] = DotDot THEN KeptFrom(Take(segs, Len(segs) - 1), pending + 1)
  ELSE IF pending > 0 THEN KeptFrom(Take(segs, Len(segs) - 1), pending - 1)
  ELSE Append(KeptFrom(Take(segs, Len(segs) - 1), 0), segs[Len(segs)])

Kept(p) == KeptFrom(Segments(p), 0)
SegmentsOf(path) == IF path = <<>> THEN <<>> ELSE Split(path)

\* C25: when normalize succeeds, the result neither begins nor ends with
\* "/", has no empty, "." or ".." segment, is made of the retained segments
\* of the raw path in their order, and is the empty path exactly when no
\* segment is retained.
C25_NormalizedShape ==
  (once # NotYet /\ once.err = Nil) =>
    /\ once.path # <<>> => once.path[1] # "/" /\ once.path[Len(once.path)] # "/"
    /\ \A i \in 1..Len(SegmentsOf(once.path)) :
         SegmentsOf(once.path)[i] \notin {<<>>, Dot, DotDot}
    /\ SegmentsOf(once.path) = Kept(raw)
    /\ (once.path = <<>>) <=> (Kept(raw) = <<>>)

\* a raw path with a leading separator and two retained segments was
\* normalized
C25_Witness ==
  /\ once # NotYet /\ once.err = Nil
  /\ raw # <<>> /\ raw[1] = "/"
  /\ Len(Kept(raw)) = 2 /\ Len(SegmentsOf(once.path)) = 2

\* a raw path all of whose segments were dropped normalized to the root
C25_WitnessRoot ==
  /\ once # NotYet /\ once.err = Nil
  /\ \E i \in 1..Len(Segments(raw)) : Segments(raw)[i] = DotDot
  /\ once.path = <<>>

\* s without its control characters
Printable(s) == SelectSeq(s, LAMBDA c : c # CTL)

\* C26: when normalize succeeds the result holds no control character,
\* wherever they stood in the raw path, and the stripping step removes
\* nothing but control characters.
C26_StripsControlCharacters ==
  (once # NotYet /\ once.err = Nil) =>
    /\ \A i \in 1..Len(once.path) : once.path[i] # CTL
    /\ removeFunkyWhiteSpace(ReplaceBackslash(raw)) = Printable(ReplaceBackslash(raw))

\* what the pattern of the code does guarantee: no run of control
\* characters that follows a "#" is left in the result
C26_NoControlAfterHash ==
  (once # NotYet /\ once.err = Nil) =>
    \A i \in 1..(Len(once.path) - 1) : ~(once.path[i] = "#" /\ once.path[i + 1] = CTL)

(***************************************************************************)
(* Claims about the facade (checked under Spec)                            *)
(***************************************************************************)
Called_(ms) == \E i \in 1..Len(last.calls) : last.calls[i].m \in ms
HasAnswered == \A i \in 1..Len(last.calls) : last.calls[i].m = "Has" => last.calls[i].ok
NPath == normalizePath(last.path)
NNew == normalizePath(last.newpath)
\* what the facade's Has reports for a normalized path in the store the
\* operation started from
WasPresent(p) == p # emptyPath /\ last.pre[last.fs][p] # Absent
Unchanged == store = last.pre

\* the value of the disableAsserts option of a filesystem that has a Config
DisableAsserts(f) == Config_Get(config[f], "disableAsserts", "false")
AssertsEnabled(f) == ~config[f].nil /\ DisableAsserts(f) = "false"
AssertsDisabled(f) == ~config[f].nil /\ DisableAsserts(f) = "true"

\* C1: with disableAsserts unset or false, Write and WriteStream to a path
\* that is already present fail with FileExists, the Adapter's Write or
\* WriteStream is not invoked and the stored content is unchanged.
C1_WriteToPresentFailsFileExists ==
  ( /\ last.op \in {"Write", "WriteStream"}
    /\ AssertsEnabled(last.fs)
    /\ NPath.err = Nil /\ WasPresent(NPath.path)
    /\ HasAnswered )
  => /\ last.err = fileExistsError(NPath.path)
     /\ ~Called_({"Write", "WriteStream"})
     /\ Unchanged

\* C4: with disableAsserts unset or false, Move fails FileNotFound when the
\* normalized source is absent and FileExists when the normalized
\* destination is present; Adapter.Move is not called and presence is
\* unchanged.
C4_MoveAssertsPresenceAndAbsence ==
  ( /\ last.op = "Move"
    /\ AssertsEnabled(last.fs)
    /\ NPath.err = Nil /\ NNew.err = Nil
    /\ HasAnswered )
  => /\ ~WasPresent(NPath.path) =>
          last.err = fileNotFoundError(NPath.path) /\ ~Called_({"Move"}) /\ Unchanged
     /\ WasPresent(NPath.path) /\ WasPresent(NNew.path) =>
          last.err = fileExistsError(NNew.path) /\ ~Called_({"Move"}) /\ Unchanged

\* C5: Put and PutStream make one presence query and then exactly one
\* Adapter call: Update(Stream) when the path is present and the Adapter can
\* overwrite, Write(Stream) otherwise; they never fail with FileExists or
\* FileNotFound, and a Put that returns nil leaves the content put.
C5_PutIsUpsert ==
  ( /\ last.op \in {"Put", "PutStream"}
    /\ NPath.err = Nil
    /\ HasAnswered )
  => LET upd == IF last.op = "Put" THEN "Update" ELSE "UpdateStream"
         wr == IF last.op = "Put" THEN "Write" ELSE "WriteStream"
         stores == SelectSeq(last.calls, LAMBDA c : c.m # "Has")
     IN /\ Len(stores) = 1
        /\ stores[1].p = NPath.path
        /\ stores[1].m = IF WasPresent(NPath.path) /\ canOverwrite(last.fs) THEN upd ELSE wr
        /\ Len(SelectSeq(last.calls, LAMBDA c : c.m = "Has")) <= 1
        /\ last.err.kind \notin {"fileExistsError", "fileNotFoundError"}
        /\ last.err = Nil => store[last.fs][NPath.path] = last.content

\* the part of C5 the code satisfies: the same, for calls without options
C5_PutIsUpsertWithoutOptions ==
  last.op \in {"Put", "PutStream"} /\ last.opts = EmptyMap => C5_PutIsUpsert

\* C6: with disableAsserts unset or false, Update, UpdateStream, Delete and
\* SetVisibility on an absent path fail with FileNotFound, make no mutating
\* Adapter call and leave the store unchanged.
C6_AbsentPathFailsFileNotFound ==
  ( /\ last.op \in {"Update", "UpdateStream", "Delete", "SetVisibility"}
    /\ AssertsEnabled(last.fs)
    /\ NPath.err = Nil /\ ~WasPresent(NPath.path)
    /\ HasAnswered )
  => /\ last.err = fileNotFoundError(NPath.path)
     /\ ~Called_({"Update", "UpdateStream", "Delete", "SetVisibility"})
     /\ Unchanged

\* C7: with disableAsserts true the facade makes no presence or absence
\* pre-check: Write, Update, Delete, SetVisibility and Move issue no
\* Adapter.Has and are never rejected with FileExists or FileNotFound.
C7_DisabledAssertsSkipCheck ==
  ( /\ last.op \in {"Write", "Update", "Delete", "SetVisibility", "Move"}
    /\ AssertsDisabled(last.fs)
    /\ NPath.err = Nil
    /\ last.op = "Move" => NNew.err = Nil )
  => /\ ~Called_({"Has"})
     /\ last.err.kind \notin {"fileExistsError", "fileNotFoundError"}

\* C10: every path-taking operation normalizes its path arguments first:
\* when a normalization fails the operation returns that error and makes no
\* Adapter call; otherwise every path handed to the Adapter is the
\* normalized argument, itself a fixed point of normalization.
\* (ForceRename is a plugin that calls the facade's Delete and Move; it
\* takes no path of its own to the Adapter)
TwoPaths == last.op \in {"Move", "Copy"}
C10_AdapterSeesNormalizedPaths ==
  (last # Idle /\ last.op # "ForceRename") =>
    IF NPath.err # Nil
    THEN last.err = NPath.err /\ last.calls = <<>> /\ Unchanged
    ELSE IF TwoPaths /\ NNew.err # Nil
    THEN last.err = NNew.err /\ last.calls = <<>> /\ Unchanged
    ELSE \A i \in 1..Len(last.calls) :
           LET c == last.calls[i] IN
           /\ c.p \in {NPath.path} \cup (IF TwoPaths THEN {NNew.path} ELSE {})
           /\ normalizePath(c.p) = [path |-> c.p, err |-> Nil]
           /\ IF c.m \in {"Move", "Copy"}
              THEN c.p = NPath.path /\ c.np = NNew.path
              ELSE c.np = NoArg

\* a Move whose raw arguments differ from their normalized forms reached
\* Adapter.Move
C10_Witness ==
  /\ last.op = "Move"
  /\ last.path = <<"/", "a", "/">> /\ last.newpath = <<"a", "/", ".", ".", "/", "b">>
  /\ Called_({"Move"})
  /\ last.err = Nil

\* C11: DeleteDir on a path that normalizes to the root (the empty path)
\* fails, makes no Adapter call (no DeleteDir in particular) and changes
\* nothing, whatever Config the filesystem has.
C11_RootDirectoryIsProtected ==
  last.op = "DeleteDir" /\ NPath.err = Nil /\ NPath.path = emptyPath
  => /\ last.err # Nil
     /\ last.calls = <<>>
     /\ Unchanged

\* DeleteDir("a/..") was refused on a filesystem whose disableAsserts is true
C11_Witness ==
  /\ last.op = "DeleteDir" /\ last.path = <<"a", "/", ".", ".">>
  /\ AssertsDisabled(last.fs)
  /\ last.err # Nil /\ last.calls = <<>>

FacadeCallOk(m) == \E i \in 1..Len(last.calls) : last.calls[i].m = m /\ last.calls[i].ok
FacadeCallFailed(m) == \E i \in 1..Len(last.calls) : last.calls[i].m = m /\ ~last.calls[i].ok
NoCallFailed == \A i \in 1..Len(last.calls) : last.calls[i].ok

\* the parts of C22 that hold: a present file, and a failing delete
C22_ReadThenDelete ==
  /\ ( /\ last.op = "ReadAndDelete" /\ ~config[last.fs].nil
       /\ NPath.err = Nil /\ WasPresent(NPath.path) /\ NoCallFailed )
     => /\ last.err = Nil
        /\ last.val = last.pre[last.fs][NPath.path]
        /\ store[last.fs][NPath.path] = Absent
  /\ ( /\ last.op = "ReadAndDelete"
       /\ FacadeCallOk("Read") /\ FacadeCallFailed("Delete") )
     => /\ last.err = adapterError(NPath.path)
        /\ last.val = ""
        /\ ~Called_({"Write", "WriteStream", "Update", "UpdateStream"})
        /\ Unchanged

\* C22: ReadAndDelete of a present file returns its content and leaves the
\* path absent; with disableAsserts unset or false, ReadAndDelete of an
\* absent path fails FileNotFound without reading or deleting; a failing
\* delete after a successful read returns the delete error and no content,
\* and nothing is written back.
C22_ReadAndDelete ==
  /\ C22_ReadThenDelete
  /\ ( /\ last.op = "ReadAndDelete" /\ AssertsEnabled(last.fs)
       /\ NPath.err = Nil /\ ~WasPresent(NPath.path) /\ HasAnswered )
     => /\ last.err = fileNotFoundError(NPath.path)
        /\ ~Called_({"Read", "Delete"})
        /\ Unchanged

\* ForceRename of a present file onto another path, no backend call failing
Renames ==
  /\ last.op = "ForceRename" /\ last.newpath # NoArg
  /\ ~config[last.fs].nil
  /\ NPath.err = Nil /\ NNew.err = Nil
  /\ WasPresent(NPath.path) /\ NNew.path # emptyPath /\ NNew.path # NPath.path
  /\ NoCallFailed
Renamed ==
  /\ last.err = Nil /\ last.val = "true"
  /\ store[last.fs][NNew.path] = last.pre[last.fs][NPath.path]
  /\ store[last.fs][NPath.path] = Absent

\* C23: ForceRename(path, newPath) of a present path ends with newPath
\* holding the former content of path and path absent, whether newPath was
\* present or not (a FileNotFound of the delete counts as success); another
\* error of the delete aborts before the Move.
C23_ForceRename ==
  /\ Renames => Renamed
  /\ last.op = "ForceRename" /\ FacadeCallFailed("Delete")
     => last.err # Nil /\ ~Called_({"Move"})

\* the part of C23 that holds: over an existing newPath
C23_ForceRenameOverExisting ==
  /\ Renames /\ WasPresent(NNew.path) => Renamed
  /\ last.op = "ForceRename" /\ FacadeCallFailed("Delete")
     => last.err # Nil /\ ~Called_({"Move"})

\* a Copy whose paths normalize, made by a facade that performs its
\* pre-checks and whose Has queries were answered
CheckedCopy ==
  /\ last.op = "Copy"
  /\ ~config[last.fs].nil /\ PerformsCheck(last.fs)
  /\ NPath.err = Nil /\ NNew.err = Nil
  /\ HasAnswered

\* C27: when the pre-checks are performed, a Copy with the source present
\* and the destination absent is not rejected with FileExists and reaches
\* Adapter.Copy(path, newPath); with both present it is rejected with
\* FileExists naming the destination.
C27_CopyChecksDestination ==
  (CheckedCopy /\ WasPresent(NPath.path)) =>
    /\ ~WasPresent(NNew.path) =>
         /\ last.err.kind # "fileExistsError"
         /\ \E i \in 1..Len(last.calls) :
              /\ last.calls[i].m = "Copy"
              /\ last.calls[i].p = NPath.path /\ last.calls[i].np = NNew.path
    /\ WasPresent(NNew.path) => last.err = fileExistsError(NNew.path)

\* what the code does: the absence check is made on the source, so a
\* checked Copy never reaches the Adapter's Copy; it fails FileNotFound when
\* the source is absent and FileExists, naming the source, when it is
\* present
C27_CopyChecksSource ==
  CheckedCopy =>
    /\ ~Called_({"Copy"}) /\ Unchanged
    /\ last.err = IF WasPresent(NPath.path) THEN fileExistsError(NPath.path)
                  ELSE fileNotFoundError(NPath.path)

\* the call was made on a path that normalizes to the logical root
OnRoot == NPath.err = Nil /\ NPath.path = emptyPath
ChecksPerformed == ~config[last.fs].nil /\ PerformsCheck(last.fs)

\* C29: Has on a path that normalizes to the empty path returns false
\* without querying the Adapter; hence, when the pre-checks are performed,
\* Update, Delete and SetVisibility of the root fail FileNotFound without a
\* call to the Adapter, and Write to the root is not rejected with
\* FileExists.
C29_RootIsNeverPresent ==
  /\ (last.op = "Has" /\ OnRoot) =>
       last.err = Nil /\ last.val = "false" /\ last.calls = <<>>
  /\ (last.op \in {"Update", "Delete", "SetVisibility"} /\ OnRoot /\ ChecksPerformed) =>
       last.err = fileNotFoundError(emptyPath) /\ last.calls = <<>> /\ Unchanged
  /\ (last.op = "Write" /\ OnRoot /\ ChecksPerformed) =>
       last.err.kind # "fileExistsError" /\ ~Called_({"Has"})

\* Has was asked about a raw path that normalizes to the root while the
\* backend held an entry at the root
C29_Witness ==
  /\ last.op = "Has" /\ OnRoot /\ last.path # emptyPath
  /\ last.pre[last.fs][emptyPath] # Absent
  /\ last.val = "false"

\* a checked Delete of the root failed FileNotFound
C29_WitnessDelete ==
  /\ last.op = "Delete" /\ OnRoot /\ ChecksPerformed
  /\ last.err = fileNotFoundError(emptyPath)

\* a checked Write to the root got past the absence check
C29_WitnessWrite ==
  /\ last.op = "Write" /\ OnRoot /\ ChecksPerformed
  /\ last.pre[last.fs][emptyPath] # Absent
  /\ Called_({"Write"})

(***************************************************************************)
(* Claims about the configuration chain (checked under SpecConfig)         *)
(***************************************************************************)
\* the settings maps of a Config and of its fallbacks, local map first
RECURSIVE ChainOf(_)
ChainOf(c) == IF c.nil THEN <<>> ELSE <<c.settings>> \o ChainOf(c.fallback)
Sets(ch, key) == {i \in 1..Len(ch) : key \in DOMAIN ch[i]}
\* the value of key in the first map of ch that sets it, def if none does
FirstSetting(ch, key, def) ==
  IF Sets(ch, key) = {} THEN def
  ELSE ch[CHOOSE i \in Sets(ch, key) : \A j \in Sets(ch, key) : i <= j][key]

\* C12: PrepareConfig(overrides).Get(key, def) is the override of key if
\* the call-site map has one, else what the filesystem's persistent Config
\* chain resolves key to, else def.
C12_CallSiteOptionsWin ==
  last.op = "PrepareConfig"
  => last.val = FirstSetting(<<last.overrides>> \o ChainOf(last.pre), last.key, last.def)

\* the part of C12 that holds: with an empty override map the persistent
\* Config (or the default parameter) answers
C12_EmptyOverridesFallBack ==
  last.op = "PrepareConfig" /\ last.overrides = EmptyMap
  => last.val = FirstSetting(ChainOf(last.pre), last.key, last.def)

\* C13: Get returns the value of the first Config of the chain that sets
\* the key and the default only if none does; Has is true exactly if some
\* Config of the chain sets the key.
C13_ResolutionOrder ==
  /\ last.op = "Get" /\ ~last.pre.nil
     => last.val = FirstSetting(ChainOf(last.pre), last.key, last.def)
  /\ last.op = "Has" /\ ~last.pre.nil
     => (last.val = "true" <=> Sets(ChainOf(last.pre), last.key) # {})
        /\ last.val \in {"true", "false"}

\* Get answered from the second Config of a chain of three whose first does
\* not set the key and whose third sets it to another value
C13_Witness ==
  /\ last.op = "Get" /\ ~last.pre.nil
  /\ Len(ChainOf(last.pre)) = 3
  /\ Sets(ChainOf(last.pre), last.key) = {2, 3}
  /\ ChainOf(last.pre)[2][last.key] # ChainOf(last.pre)[3][last.key]
  /\ last.val = ChainOf(last.pre)[2][last.key]

(***************************************************************************)
(* Claims about the plugin registry (checked under SpecPlugin)             *)
(***************************************************************************)
Invoked == last.op = "InvokePlugin"
Registered == last.method \in DOMAIN last.pre.tab

\* C20: InvokePlugin of a method without a registered plugin fails
\* PluginNotFound and calls neither SetFileSystem nor Handle; for a
\* registered method it calls SetFileSystem(fs) on that plugin, then Handle
\* with the same arguments on the plugin now bound to fs, and returns
\* exactly what Handle returned.
C20_PluginDispatch ==
  /\ Invoked /\ ~Registered
     => /\ last.err = pluginNotFoundError(last.method)
        /\ last.calls = <<>>
        /\ bound = last.prebound
  /\ Invoked /\ Registered
     => /\ Len(last.calls) = 2
        /\ last.calls[1] = SetFileSystemCall(last.pre.tab[last.method], last.target)
        /\ last.calls[2].m = "Handle"
        /\ last.calls[2].plugin = last.pre.tab[last.method]
        /\ last.calls[2].fs = last.target
        /\ last.calls[2].args = last.args
        /\ last.err = last.calls[2].ret.err /\ last.val = last.calls[2].ret.val

\* a plugin that was bound to filesystem A was invoked for filesystem B
\* with arguments, and its Handle returned an error
C20_Witness ==
  /\ Invoked /\ Registered
  /\ last.prebound[last.pre.tab[last.method]] = "A" /\ last.target = "B"
  /\ last.args # <<>> /\ last.err # Nil

\* an unregistered method was invoked while other plugins are registered
C20_WitnessNotFound ==
  /\ Invoked /\ ~Registered /\ DOMAIN last.pre.tab # {}
  /\ last.err.kind = "pluginNotFound"

\* what AddPlugin(p) is to leave behind: p under its method name, every
\* other binding as it was
Registers ==
  /\ last.err = Nil
  /\ DOMAIN plugins.tab = DOMAIN last.pre.tab \cup {last.method}
  /\ plugins.tab[last.method] = last.args[1]
  /\ \A n \in DOMAIN last.pre.tab \ {last.method} : plugins.tab[n] = last.pre.tab[n]
  /\ Pluggable_FindPlugin(plugins, last.method) = [plugin |-> last.args[1], err |-> Nil]

\* C21: AddPlugin(p) on the registry of a filesystem New returned (and on
\* any other registry) registers p under p.Method(), replacing a plugin
\* registered under that name and leaving the other names alone.
C21_AddPluginRegisters ==
  last.op = "AddPlugin" => Registers

\* the part of C21 that holds: on a Pluggable whose map has been made
C21_AddPluginRegistersOnMadeMap ==
  last.op = "AddPlugin" /\ last.pre.alloc => Registers

(***************************************************************************)
(* Claims about the mount manager (checked under SpecMount)                *)
(***************************************************************************)
Src == splitPath(last.path)
Dst == splitPath(last.newpath)
SrcFs == last.table[Src.prefix]
DstFs == last.table[Dst.prefix]
SrcPath == normalizePath(Src.subPath).path
\* a Move or Copy between two different mounts of the table
AcrossMounts(op) ==
  /\ last.op = op /\ last.fs = "mm"
  /\ Src.err = Nil /\ Dst.err = Nil
  /\ Src.prefix \in DOMAIN last.table /\ Dst.prefix \in DOMAIN last.table
  /\ Src.prefix # Dst.prefix
CallOk(m) == \E i \in 1..Len(last.calls) : last.calls[i].m = m /\ last.calls[i].ok
\* the source stream was opened and the write to the destination failed
WriteFailed == CallOk("ReadStream") /\ ~CallOk("WriteStream")

\* C2: a Move between two different mounts whose streaming write to the
\* destination fails returns an error and deletes nothing: the source is
\* still present with its content, and no store has changed.
C2_FailedWriteKeepsSource ==
  AcrossMounts("Move") /\ WriteFailed
  => /\ last.err # Nil
     /\ ~Called_({"Delete"})
     /\ store[SrcFs][SrcPath] = last.pre[SrcFs][SrcPath]
     /\ fs_Has([st |-> store, calls |-> <<>>], SrcFs, Src.subPath, 0).val = "true"
     /\ Unchanged

\* a Move from one filesystem to another whose Adapter.WriteStream failed
C2_Witness ==
  /\ AcrossMounts("Move") /\ WriteFailed
  /\ SrcFs # DstFs
  /\ \E i \in 1..Len(last.calls) :
       last.calls[i] = Call(DstFs, "WriteStream", normalizePath(Dst.subPath).path, NoArg, FALSE)
  /\ last.err.kind = "adapterError"

SinglePathOp == last.op \notin {"none", "Mount", "Unmount", "Move", "Copy"} /\ last.fs = "mm"

\* the dispatch of C3: an operation on prefix://p invokes only the
\* filesystem mounted under prefix, with sub-path p, and an operation on an
\* unmounted prefix fails MountNotFound without invoking any filesystem
C3_Dispatch ==
  SinglePathOp /\ Src.err = Nil =>
    IF Src.prefix \in DOMAIN last.table
    THEN \A i \in 1..Len(last.calls) :
           last.calls[i].fs = SrcFs /\ last.calls[i].p = SrcPath
    ELSE last.err = mountNotFoundError(Src.prefix) /\ last.calls = <<>> /\ Unchanged

\* C3: on a manager created by EmptyMountManager, Mount of a free prefix
\* succeeds and maps the prefix to the filesystem, after which operations
\* on prefix://p invoke only that filesystem and operations on an unmounted
\* prefix fail MountNotFound.
C3_MountThenDispatch ==
  /\ ( /\ last.op = "Mount" /\ last.fs = "mm"
       /\ ~allocated
       /\ last.path \notin DOMAIN last.table )
     => /\ last.err = Nil
        /\ last.path \in DOMAIN managers
        /\ managers[last.path] = last.mgr
  /\ C3_Dispatch

\* operations were dispatched to a mounted filesystem and refused for an
\* unmounted prefix
C3_DispatchWitnessMounted ==
  /\ SinglePathOp /\ last.op = "Has" /\ Src.err = Nil
  /\ Src.prefix = Local /\ Local \in DOMAIN last.table /\ Mem \in DOMAIN last.table
  /\ last.table[Local] # last.table[Mem]
  /\ Len(last.calls) = 1

\* the mount table without one prefix
Without(table, prefix) == [q \in DOMAIN table \ {prefix} |-> table[q]]
PathOp == last.op \notin {"none", "Mount", "Unmount"} /\ last.fs = "mm"

\* C14: Mount of a mounted prefix fails MountExists and Unmount of a prefix
\* that is not mounted fails MountNotFound, both leaving the table as it
\* was; a successful Unmount removes exactly its prefix; an operation on a
\* path whose prefix is not in the table fails MountNotFound without
\* invoking any filesystem.
C14_MountTableErrors ==
  /\ last.op = "Mount" /\ last.path \in DOMAIN last.table
     => last.err = mountExistsError(last.path) /\ managers = last.table
  /\ last.op = "Unmount" /\ last.path \notin DOMAIN last.table
     => last.err = mountNotFoundError(last.path) /\ managers = last.table
  /\ last.op = "Unmount" /\ last.path \in DOMAIN last.table
     => last.err = Nil /\ managers = Without(last.table, last.path)
  /\ PathOp /\ Src.err = Nil /\ Src.prefix \notin DOMAIN last.table
     => last.err = mountNotFoundError(Src.prefix) /\ last.calls = <<>> /\ Unchanged

\* Mount of another filesystem under a mounted prefix was refused while a
\* second prefix was mounted
C14_Witness ==
  /\ last.op = "Mount" /\ last.path \in DOMAIN last.table
  /\ last.table[last.path] # last.mgr
  /\ DOMAIN last.table = MountPrefixes
  /\ last.err.kind = "mountExists"

\* a prefix was unmounted and the other one stayed
C14_WitnessUnmount ==
  /\ last.op = "Unmount" /\ last.err = Nil
  /\ DOMAIN last.table = MountPrefixes /\ Cardinality(DOMAIN managers) = 1

\* the positions at which "://" occurs in a path
SepAt(path) == {i \in 1..(Len(path) - 2) : SubSeq(path, i, i + 2) = Sep}
\* the path starts with a match of ^[a-z]+://
WellFormed(path) ==
  \E i \in SepAt(path) : i > 1 /\ \A j \in 1..(i - 1) : path[j] \in LowerCase
FirstSep(path) == CHOOSE i \in SepAt(path) : \A j \in SepAt(path) : i <= j
Before(path) == SubSeq(path, 1, FirstSep(path) - 1)
After(path) == SubSeq(path, FirstSep(path) + 3, Len(path))
TwoPathOp == PathOp /\ last.op \in {"Move", "Copy"}
CallsOf(ms) == {i \in 1..Len(last.calls) : last.calls[i].m \in ms}

\* how an operation treats one well-formed path argument whose prefix is
\* mounted: the calls ms are made on the filesystem mounted under the text
\* before the first "://", with the normalized text after it
HandedOn(path, ms) ==
  \A i \in CallsOf(ms) :
    /\ last.calls[i].fs = last.table[Before(path)]
    /\ last.calls[i].p = normalizePath(After(path)).path

\* C15 as stated: an operation given a path that does not start with a
\* match of ^[a-z]+:// fails InvalidPath and invokes no filesystem.
C15_MalformedPathFailsInvalidPath ==
  PathOp /\ (~WellFormed(last.path) \/ (TwoPathOp /\ ~WellFormed(last.newpath)))
  => IsPathError(last.err) /\ last.calls = <<>> /\ Unchanged

\* C15, amended: a malformed path argument makes the operation fail with
\* InvalidPath naming it, unless an earlier path argument was already
\* refused (the source of a Move or Copy on an unmounted prefix fails
\* MountNotFound first); no filesystem is invoked in either case.  For a
\* well-formed path the prefix is the text before the first "://" and the
\* owning filesystem receives the text after it.
C15_SplitPath ==
  /\ PathOp /\ ~WellFormed(last.path)
     => last.err = invalidPathError(last.path) /\ last.calls = <<>> /\ Unchanged
  /\ TwoPathOp /\ WellFormed(last.path) /\ ~WellFormed(last.newpath)
     => /\ last.calls = <<>> /\ Unchanged
        /\ last.err = IF Before(last.path) \in DOMAIN last.table
                      THEN invalidPathError(last.newpath)
                      ELSE mountNotFoundError(Before(last.path))
  /\ PathOp /\ WellFormed(last.path) /\ Before(last.path) \notin DOMAIN last.table
     => last.err = mountNotFoundError(Before(last.path)) /\ last.calls = <<>>
  /\ PathOp /\ ~TwoPathOp /\ WellFormed(last.path) /\ Before(last.path) \in DOMAIN last.table
     => /\ HandedOn(last.path, {last.calls[i].m : i \in 1..Len(last.calls)})
        /\ normalizePath(After(last.path)).err # Nil
           => last.err = normalizePath(After(last.path)).err
  /\ ( /\ TwoPathOp /\ WellFormed(last.path) /\ WellFormed(last.newpath)
       /\ Before(last.path) \in DOMAIN last.table
       /\ Before(last.newpath) \in DOMAIN last.table )
     => HandedOn(last.path, {"ReadStream"}) /\ HandedOn(last.newpath, {"WriteStream"})

\* a Copy from a mounted prefix to a malformed path was refused with
\* InvalidPath
C15_Witness ==
  /\ last.op = "Copy" /\ last.fs = "mm"
  /\ last.path = Mem \o Sep \o <<"/", "a">> /\ last.newpath = <<"A">> \o Sep \o <<"a">>
  /\ Mem \in DOMAIN last.table
  /\ last.err = invalidPathError(last.newpath)

\* a Write went to the filesystem of its prefix with the text after "://"
C15_WitnessHandedOn ==
  /\ last.op = "Write" /\ last.fs = "mm"
  /\ last.path = Mem \o Sep \o <<"/", "a">> /\ Mem \in DOMAIN last.table
  /\ \E i \in CallsOf({"Write"}) :
       last.calls[i].p = <<"a">> /\ last.calls[i].ok /\ last.calls[i].fs = last.table[Mem]

DstPath == normalizePath(Dst.subPath).path
AllCallsOk == \A i \in 1..Len(last.calls) : last.calls[i].ok
HasNow(f, subPath) == fs_Has([st |-> store, calls |-> <<>>], f, subPath, 0).val
\* a Move or Copy between two different filesystems, from a present file to
\* an absent one, during which no backend call failed
CrossBackend(op) ==
  /\ AcrossMounts(op) /\ SrcFs # DstFs
  /\ normalizePath(Src.subPath).err = Nil /\ normalizePath(Dst.subPath).err = Nil
  /\ SrcPath # emptyPath /\ DstPath # emptyPath
  /\ last.pre[SrcFs][SrcPath] # Absent /\ last.pre[DstFs][DstPath] = Absent
  /\ AllCallsOk

\* C16: a Move between two filesystems from a present file to an absent
\* path returns no error, after which the destination is present with the
\* content the source had and the source is absent; a Copy gives the same
\* destination and leaves the source present with its content.
C16_CrossBackendMoveAndCopy ==
  /\ CrossBackend("Move")
     => /\ last.err = Nil
        /\ HasNow(DstFs, Dst.subPath) = "true" /\ HasNow(SrcFs, Src.subPath) = "false"
        /\ store[DstFs][DstPath] = last.pre[SrcFs][SrcPath]
        /\ store[SrcFs][SrcPath] = Absent
  /\ CrossBackend("Copy")
     => /\ last.err = Nil
        /\ HasNow(DstFs, Dst.subPath) = "true" /\ HasNow(SrcFs, Src.subPath) = "true"
        /\ store[DstFs][DstPath] = last.pre[SrcFs][SrcPath]
        /\ store[SrcFs][SrcPath] = last.pre[SrcFs][SrcPath]

\* Move("local://a", "mem://b") from filesystem A to filesystem B carried
\* the content v2 over
C16_Witness ==
  /\ CrossBackend("Move")
  /\ last.path = Local \o Sep \o <<"a">> /\ last.newpath = Mem \o Sep \o <<"b">>
  /\ SrcFs = "A" /\ DstFs = "B"
  /\ last.pre["A"][<<"a">>] = "v2" /\ store["B"][<<"b">>] = "v2"
  /\ last.err = Nil

\* a Copy the other way round succeeded
C16_WitnessCopy ==
  /\ CrossBackend("Copy") /\ SrcFs = "B" /\ DstFs = "A" /\ last.err = Nil

\* a Move or Copy whose two paths resolve to the same mounted filesystem
SameInstance ==
  /\ TwoPathOp /\ Src.err = Nil /\ Dst.err = Nil
  /\ Src.prefix \in DOMAIN last.table /\ Dst.prefix \in DOMAIN last.table
  /\ SrcFs = DstFs

\* C17: a Move or Copy whose paths resolve to the same filesystem instance
\* is delegated to that filesystem's own Move or Copy; the manager opens no
\* stream, writes no stream and deletes nothing itself.
C17_SameInstanceFastPath ==
  SameInstance => ~Called_({"ReadStream", "WriteStream", "Delete"})

FailedCalls == {i \in 1..Len(last.calls) : ~last.calls[i].ok}

\* C18: in a cross-backend Move or Copy a failed ReadStream is returned as
\* an error value, with no WriteStream and no Delete; a failed WriteStream
\* or Delete is returned as well.
C18_FirstFailingStepIsReturned ==
  /\ (AcrossMounts("Move") \/ AcrossMounts("Copy")) /\ ~CallOk("ReadStream")
     => /\ last.err # Nil /\ last.err.kind # "panic"
        /\ ~Called_({"WriteStream", "Delete"})
  /\ (AcrossMounts("Move") \/ AcrossMounts("Copy")) /\ CallOk("ReadStream")
     => \A i \in FailedCalls : last.err = adapterError(last.calls[i].p)

\* the part of C18 that holds: once the source stream is open, the error of
\* the failing backend call is what the operation returns
C18_LaterErrorsAreReturned ==
  (AcrossMounts("Move") \/ AcrossMounts("Copy")) /\ CallOk("ReadStream")
  => \A i \in FailedCalls : last.err = adapterError(last.calls[i].p)

\* C19: in a cross-backend Move or Copy a source stream that was opened is
\* closed exactly once, as the last thing before the call returns, and
\* Close is never invoked when no stream was opened.
C19_StreamIsReleased ==
  (AcrossMounts("Move") \/ AcrossMounts("Copy"))
  => /\ CallOk("ReadStream")
        => CallsOf({"Close"}) = {Len(last.calls)} /\ last.calls[Len(last.calls)].ok
     /\ ~CallOk("ReadStream") => CallsOf({"Close"}) = {}

\* the part of C19 that holds: an opened stream is closed on every exit
C19_OpenedStreamIsClosed ==
  (AcrossMounts("Move") \/ AcrossMounts("Copy")) /\ CallOk("ReadStream")
  => CallsOf({"Close"}) = {Len(last.calls)} /\ last.calls[Len(last.calls)].ok

(***************************************************************************)
(* Claims about concurrent callers of the mount manager (checked under     *)
(* SpecMountConc)                                                          *)
(***************************************************************************)
\* a caller is between the lookup and the end of the write of a Mount or
\* Unmount
InMutation(c) == callers[c].pc \in {"assign", "writing"}

\* C24: Mount and Unmount have exclusive access to the mount table: no two
\* of them are in progress at once, no table access overlaps a write (no
\* data race stops the program), and the write of a Mount or Unmount still
\* finds the table as its lookup found it, so that two concurrent Mounts of
\* one prefix never both succeed.
C24_ExclusiveTableAccess ==
  /\ \A c, d \in Callers : c # d => ~(InMutation(c) /\ InMutation(d))
  /\ \A c \in Callers : ~callers[c].raced /\ ~callers[c].stale
  /\ ~Crashed

(***************************************************************************)
(* Claims about concurrent callers of InvokePlugin (checked under          *)
(* SpecPluginConc)                                                         *)
(***************************************************************************)
\* caller c's InvokePlugin has executed the Handle of its plugin
Handled(c) == callers[c].pc = "done" /\ callers[c].ranOn # "none"

\* C28: every Handle execution operates on the filesystem passed to its own
\* InvokePlugin call, never on the one another call bound.
C28_HandleRunsOnOwnFilesystem ==
  \A c \in Callers : Handled(c) => callers[c].ranOn = callers[c].fs

====
